---------------------------- MODULE Spec2Model ----------------------------
(***************************************************************************)
(* Model of batchglm's tensorflow training core:                           *)
(*   - MultiTrainer (train/tf/train.py): construction of the update ops,   *)
(*     one execution of each op, train_op_by_name;                         *)
(*   - apply_constraints (train/tf/nb_glm/model.py).                       *)
(* Floating point tensors are modelled by exact rationals <<num, den>>;    *)
(* tf.divide keeps its IEEE results for a zero divisor (+inf, -inf, nan).  *)
(* Tensor indices are 1-based here and 0-based in the source.              *)
(***************************************************************************)
EXTENDS Integers, Sequences, FiniteSets, TLC

VARIABLES
    \* ---- MultiTrainer
    cfg,               \* arguments of MultiTrainer.__init__
    trainer,           \* the constructed object: its train_op_* attributes, or the error raised
    lookup,            \* last train_op_by_name call: <<>> or <<[name, res]>>
    variables,         \* the trainable parameter block, one column per feature
    nr_tr_radius,      \* trust region radius per feature (Newton)
    irls_tr_radius,    \* trust region radius per feature (IRLS)
    features_updated,  \* per feature flag
    global_step,       \* shared step counter
    step0,             \* value of global_step when the trainer was built
    nExec,             \* number of executed update ops
    budget,            \* number of executions the run may make
    last,              \* the last executed op with its inputs and the state it ran in
    \* ---- apply_constraints
    cArgs,             \* arguments of the last apply_constraints call
    cRes,              \* its outcome
    \* ---- the parameter clipper
    fnCall,            \* the arguments of the call
    fnRes,             \* what the calls made so far returned
    \* ---- StopAtLossHook
    slHook,            \* the hook object
    slSess,            \* the session it is attached to, and what it observed
    \* ---- TimedRunHook
    trHook,            \* the hook object
    trSess             \* the session, the main loop and the callback threads

trainerVars == <<cfg, trainer, lookup, variables, nr_tr_radius, irls_tr_radius,
                 features_updated, global_step, step0, nExec, budget, last>>
constrVars == <<cArgs, cRes>>
fnVars == <<fnCall, fnRes>>
hookVars == <<slHook, slSess, trHook, trSess>>
vars == <<trainerVars, constrVars, fnVars, hookVars>>

-----------------------------------------------------------------------------
(* Bounds *)

\* number of features (columns of the parameter block)
NFeat == 2
\* longest sequence of update op executions
MaxSteps == 2
\* the constraint matrices drawn: at most MaxRows constraints on at most
\* MaxCols parameters, with at most MaxCells entries
MaxRows == 3
MaxCols == 3
MaxCells == 9
\* how often the clipper is applied in a row
MaxClips == 2
\* largest loss_averaging_steps of a StopAtLossHook
MaxWindow == 3
\* largest run_steps of a TimedRunHook, and the session runs it sees
MaxRunSteps == 2
\* calls made on a GLM object
MaxGLMCalls == 2
MaxTimedRuns == 3

Features == 1..NFeat

-----------------------------------------------------------------------------
(* Exact rational arithmetic standing for the float tensors *)

Abs(n) == IF n < 0 THEN -n ELSE n

RECURSIVE Gcd(_, _)
Gcd(a, b) == IF b = 0 THEN a ELSE Gcd(b, a % b)

\* the rational n/d (d # 0) in lowest terms with a positive denominator
Rat(n, d) ==
    LET g == Gcd(Abs(n), Abs(d))
        s == IF d < 0 THEN -1 ELSE 1
    IN  <<(s * n) \div g, (s * d) \div g>>

RInt(n) == <<n, 1>>
RMul(a, b) == Rat(a[1] * b[1], a[2] * b[2])
RSub(a, b) == Rat(a[1] * b[2] - b[1] * a[2], a[2] * b[2])
RLt(a, b) == a[1] * b[2] < b[1] * a[2]
RLe(a, b) == a[1] * b[2] <= b[1] * a[2]
\* tf.minimum
RMin(a, b) == IF RLt(b, a) THEN b ELSE a

\* tf.divide of two float scalars: IEEE division, also by zero
Divide(a, b) ==
    IF b[1] # 0 THEN [k |-> "fin", v |-> Rat(a[1] * b[2], a[2] * b[1])]
    ELSE IF a[1] > 0 THEN [k |-> "pinf", v |-> RInt(0)]
    ELSE IF a[1] < 0 THEN [k |-> "ninf", v |-> RInt(0)]
    ELSE [k |-> "nan", v |-> RInt(0)]

\* x > c and x < c for a float x that may be infinite or nan (nan compares false)
FGt(x, c) == x.k = "pinf" \/ (x.k = "fin" /\ RLt(c, x.v))
FLt(x, c) == x.k = "ninf" \/ (x.k = "fin" /\ RLt(x.v, c))

\* column - scalar * column, elementwise
ColAxpy(col, s, d) ==
    [p \in DOMAIN col |->
        Rat(col[p][1] * s[2] * d[p][2] - s[1] * d[p][1] * col[p][2],
            col[p][2] * s[2] * d[p][2])]

-----------------------------------------------------------------------------
(* pkg_constants: trust region hyperparameters and the learning rate *)

TRUST_REGION_ETA0 == <<0, 1>>
TRUST_REGION_ETA1 == <<1, 4>>
TRUST_REGION_ETA2 == <<3, 4>>
TRUST_REGION_T1 == <<1, 4>>
TRUST_REGION_T2 == <<2, 1>>
TRUST_REGION_UPPER_BOUND == <<4, 1>>
\* radius the caller initialises nr_tr_radius / irls_tr_radius with
TRUST_REGION_RADIUS_INIT == <<3, 1>>

learning_rate == <<1, 2>>

-----------------------------------------------------------------------------
(* MultiTrainer.__init__ *)

OpNames == {"gd", "adam", "adagrad", "rmsprop", "nr", "nr_tr", "irls", "irls_tr"}

\* the arguments that decide which ops are built: provide_optimizers and
\* which of the precomputed update tensors are given (TRUE) or None (FALSE)
Configs ==
    [provide : [OpNames -> BOOLEAN],
     newton_delta : BOOLEAN, irls_delta : BOOLEAN,
     newton_tr_delta : BOOLEAN, irls_tr_delta : BOOLEAN]

AllProvided ==
    [provide |-> [o \in OpNames |-> TRUE],
     newton_delta |-> TRUE, irls_delta |-> TRUE,
     newton_tr_delta |-> TRUE, irls_tr_delta |-> TRUE]

\* an optional value: <<>> is None, <<v>> is v
None == <<>>
Some(v) == <<v>>

\* the train op each branch of __init__ builds, or None
train_op_GD(c) == IF c.provide["gd"] THEN Some("gd") ELSE None
train_op_Adam(c) == IF c.provide["adam"] THEN Some("adam") ELSE None
train_op_Adagrad(c) == IF c.provide["adagrad"] THEN Some("adagrad") ELSE None
train_op_RMSProp(c) == IF c.provide["rmsprop"] THEN Some("rmsprop") ELSE None
train_op_nr(c) == IF c.provide["nr"] /\ c.newton_delta THEN Some("nr") ELSE None
train_op_nr_tr(c) == IF c.provide["nr_tr"] /\ c.newton_tr_delta THEN Some("nr_tr") ELSE None
train_op_irls(c) == IF c.provide["irls"] /\ c.irls_delta THEN Some("irls") ELSE None
train_op_irls_tr(c) == IF c.provide["irls_tr"] /\ c.irls_tr_delta THEN Some("irls_tr") ELSE None

\* building irls_tr_radius_new evaluates newton_tr_delta.shape[1]
irls_tr_build_fails(c) == c.provide["irls_tr"] /\ c.irls_tr_delta /\ ~c.newton_tr_delta

\* the attributes __init__ assigns; train_op_bfgs is not among them
TrainOpAttrs(c) ==
    [a \in {"train_op_GD", "train_op_Adam", "train_op_Adagrad", "train_op_RMSProp",
            "train_op_nr", "train_op_nr_tr", "train_op_irls", "train_op_irls_tr"} |->
        CASE a = "train_op_GD" -> train_op_GD(c)
          [] a = "train_op_Adam" -> train_op_Adam(c)
          [] a = "train_op_Adagrad" -> train_op_Adagrad(c)
          [] a = "train_op_RMSProp" -> train_op_RMSProp(c)
          [] a = "train_op_nr" -> train_op_nr(c)
          [] a = "train_op_nr_tr" -> train_op_nr_tr(c)
          [] a = "train_op_irls" -> train_op_irls(c)
          [] a = "train_op_irls_tr" -> train_op_irls_tr(c)]

NoAttrs == [a \in {} |-> None]

\* the object after __init__, or the exception __init__ ends with
MultiTrainerInit(c) ==
    IF irls_tr_build_fails(c)
    THEN [ok |-> FALSE, error |-> "AttributeError", attrs |-> NoAttrs]
    ELSE [ok |-> TRUE, error |-> "", attrs |-> TrainOpAttrs(c)]

\* the ops that were built
Built(t) == {a \in DOMAIN t.attrs : t.attrs[a] # None}

-----------------------------------------------------------------------------
(* MultiTrainer.train_op_by_name *)

\* str.lower() on the names used here
LowerTable ==
    [n \in {"Adam", "ADAM", "Adagrad", "RMSprop", "RMSProp", "GD", "GradientDescent",
            "Gradient_Descent", "BFGS", "NR", "Newton", "NR_TR", "Newton_TR",
            "IRLS", "IWLS", "IRLS_TR", "IWLS_tr", "SGD", "Momentum", "NR_LS"} |->
        CASE n = "Adam" -> "adam"
          [] n = "ADAM" -> "adam"
          [] n = "Adagrad" -> "adagrad"
          [] n = "RMSprop" -> "rmsprop"
          [] n = "RMSProp" -> "rmsprop"
          [] n = "GD" -> "gd"
          [] n = "GradientDescent" -> "gradientdescent"
          [] n = "Gradient_Descent" -> "gradient_descent"
          [] n = "BFGS" -> "bfgs"
          [] n = "NR" -> "nr"
          [] n = "Newton" -> "newton"
          [] n = "NR_TR" -> "nr_tr"
          [] n = "Newton_TR" -> "newton_tr"
          [] n = "IRLS" -> "irls"
          [] n = "IWLS" -> "iwls"
          [] n = "IRLS_TR" -> "irls_tr"
          [] n = "IWLS_tr" -> "iwls_tr"
          [] n = "SGD" -> "sgd"
          [] n = "Momentum" -> "momentum"
          [] n = "NR_LS" -> "nr_ls"]

lower(n) == IF n \in DOMAIN LowerTable THEN LowerTable[n] ELSE n

GdNames == {"gradient_descent", "gd"}
NrNames == {"newton", "newton-raphson", "newton_raphson", "nr"}
NrTrNames == {"newton-trust-region", "newton_trust_region", "newton-raphson-trust-region",
              "newton_raphson_trust_region", "newton_tr", "nr_tr"}
IrlsNames == {"irls", "iwls"}
IrlsTrNames == {"irls_tr", "iwls_tr", "irls_trust_region", "iwls_trust_region",
                "irls-trust-region", "iwls-trust-region"}

\* lower case names no branch matches
UnknownLower == {"sgd", "momentum", "nr_ls", "gradientdescent", "irls_gd", "", "nr tr"}

\* the names train_op_by_name is called with
Names ==
    GdNames \cup {"adam", "adagrad", "rmsprop", "bfgs"} \cup NrNames \cup NrTrNames
    \cup IrlsNames \cup IrlsTrNames \cup UnknownLower \cup DOMAIN LowerTable

Return(v) == [kind |-> "return", val |-> v, err |-> "", msg |-> <<>>]
Raise(e, m) == [kind |-> "raise", val |-> None, err |-> e, msg |-> m]

\* one branch: `if self.<attr> is None: raise ValueError(text)` then `return self.<attr>`;
\* reading an attribute __init__ never assigned raises AttributeError
Branch(self, attr, text) ==
    IF attr \notin DOMAIN self.attrs THEN Raise("AttributeError", <<attr>>)
    ELSE IF self.attrs[attr] = None THEN Raise("ValueError", <<text>>)
    ELSE Return(self.attrs[attr])

\* the final else branch: raise ValueError("Unknown optimizer %s" % name)
unknown_optimizer_lowered(name, name_lower) ==
    Raise("ValueError", <<"Unknown optimizer ", name_lower>>)
unknown_optimizer(name, name_lower) ==
    Raise("ValueError", <<"Unknown optimizer ", name>>)

train_op_by_name(self, name) ==
    LET name_lower == lower(name)
    IN  IF name_lower \in GdNames
        THEN Branch(self, "train_op_GD", "Gradient decent not provided in initialization.")
        ELSE IF name_lower = "adam"
        THEN Branch(self, "train_op_Adam", "Adam not provided in initialization.")
        ELSE IF name_lower = "adagrad"
        THEN Branch(self, "train_op_Adagrad", "Adagrad decent not provided in initialization.")
        ELSE IF name_lower = "rmsprop"
        THEN Branch(self, "train_op_RMSProp", "RMSProp decent not provided in initialization.")
        ELSE IF name_lower = "bfgs"
        THEN Branch(self, "train_op_bfgs", "BFGS not provided in initialization.")
        ELSE IF lower(name_lower) \in NrNames
        THEN Branch(self, "train_op_nr", "Newton-rhapson not provided in initialization.")
        ELSE IF lower(name_lower) \in NrTrNames
        THEN Branch(self, "train_op_nr_tr",
                    "Newton-rhapson trust-region not provided in initialization.")
        ELSE IF lower(name_lower) \in IrlsNames
        THEN Branch(self, "train_op_irls", "IRLS not provided in initialization.")
        ELSE IF lower(name_lower) \in IrlsTrNames
        THEN Branch(self, "train_op_irls", "IRLS not provided in initialization.")
        ELSE unknown_optimizer(name, name_lower)

-----------------------------------------------------------------------------
(* Inputs of one execution of an update op *)

\* what the graph evaluates for one feature in a trust region step: the step
\* delta, the log likelihood at the current parameters (model_ll) and at the
\* candidate (ll_eval), and the predicted gain
Case(d, ll, lle, p) == [delta |-> d, model_ll |-> RInt(ll), ll_eval |-> RInt(lle), pred |-> RInt(p)]

\* proposed steps for one feature: a column with one entry per parameter
ColA == <<<<1, 1>>, <<-1, 1>>>>
ColB == <<<<-2, 1>>, <<1, 1>>>>

\* one case for every way the acceptance test and the radius update can go
GainCases ==
    { Case(ColA, -4, -5, 1),    \* gain -1, ratio -1
      Case(ColB, -4, -4, 1),    \* gain 0, ratio 0
      Case(ColA, -4, -3, 8),    \* gain 1, ratio 1/8
      Case(ColB, -4, -3, 4),    \* gain 1, ratio 1/4 = eta1
      Case(ColA, -4, -3, 2),    \* gain 1, ratio 1/2
      Case(ColB, -4, -1, 4),    \* gain 3, ratio 3/4 = eta2
      Case(ColA, -4, -3, 1),    \* gain 1, ratio 1
      Case(ColB, -4, -5, -1),   \* gain -1, ratio 1
      Case(ColA, -4, -3, -1),   \* gain 1, ratio -1
      Case(ColB, -4, -3, 0),    \* gain 1, ratio +inf
      Case(ColA, -4, -4, 0),    \* gain 0, ratio nan
      Case(ColB, -4, -5, 0) }   \* gain -1, ratio -inf

\* the cases used in runs of several steps: shrink and reject, grow and
\* accept, grow and reject
SeqGainCases ==
    { Case(ColA, -4, -5, 1), Case(ColA, -4, -3, 1), Case(ColB, -4, -5, -1) }

\* step tensors fed to the ops that have no acceptance test
DeltaTensors ==
    { [i \in Features |-> ColA],
      [i \in Features |-> IF i % 2 = 1 THEN ColB ELSE ColA] }

\* radii a trust region step may start from
RadiusInits == {<<1, 1>>, TRUST_REGION_RADIUS_INIT}

-----------------------------------------------------------------------------
(* The update ops *)

\* Each operator below gives, for one feature i, entry i (or column i) of the
\* tensor of that name in the source; the ops stack them over the features.

\* theta_new = variables - learning_rate * delta (nr, irls), and the
\* parameter update of a tensorflow optimizer's apply_gradients
theta_new_plain(theta_i, delta_i) == ColAxpy(theta_i, learning_rate, delta_i)

\* theta_new = variables - expand_dims(radius, 0) * delta
theta_new(theta_i, radius_i, delta_i) == ColAxpy(theta_i, radius_i, delta_i)

delta_f_actual(ll_eval_i, model_ll_i) == RSub(ll_eval_i, model_ll_i)

delta_f_ratio(actual_i, pred_i) == Divide(actual_i, pred_i)

update_theta_ratio_only(actual_i, ratio_i) ==
    FGt(ratio_i, TRUST_REGION_ETA1)
update_theta(actual_i, ratio_i) ==
    RLt(TRUST_REGION_ETA0, actual_i) /\ FGt(ratio_i, TRUST_REGION_ETA1)

\* ---- nr_tr
theta_new_nr_tr(theta_i, cand_i, upd_i) == IF upd_i THEN cand_i ELSE theta_i

\* variants: the radius shrinks only when the gain is below eta1 in absolute
\* terms; the radius grows without the cap
nr_tr_radius_new_by_sign(radius_i, ratio_i) ==
    IF FLt(ratio_i, TRUST_REGION_ETA0)
    THEN RMul(radius_i, TRUST_REGION_T1)
    ELSE IF FGt(ratio_i, TRUST_REGION_ETA2)
         THEN RMin(RMul(radius_i, TRUST_REGION_T2), TRUST_REGION_UPPER_BOUND)
         ELSE radius_i
nr_tr_radius_new_uncapped(radius_i, ratio_i) ==
    IF FLt(ratio_i, TRUST_REGION_ETA1)
    THEN RMul(radius_i, TRUST_REGION_T1)
    ELSE IF FGt(ratio_i, TRUST_REGION_ETA2)
         THEN RMul(radius_i, TRUST_REGION_T2)
         ELSE radius_i
nr_tr_radius_new(radius_i, ratio_i) ==
    IF FLt(ratio_i, TRUST_REGION_ETA1)
    THEN RMul(radius_i, TRUST_REGION_T1)
    ELSE IF FGt(ratio_i, TRUST_REGION_ETA2)
         THEN RMin(RMul(radius_i, TRUST_REGION_T2), TRUST_REGION_UPPER_BOUND)
         ELSE radius_i

\* ---- irls_tr (the radius variant shrinks also at a ratio of eta1)
theta_new_irls_tr(theta_i, cand_i, upd_i) == IF upd_i THEN cand_i ELSE theta_i

irls_tr_radius_new_shrinks_at_eta1(radius_i, ratio_i) ==
    IF ~FGt(ratio_i, TRUST_REGION_ETA1)
    THEN RMul(radius_i, TRUST_REGION_T1)
    ELSE IF FGt(ratio_i, TRUST_REGION_ETA2)
         THEN RMin(RMul(radius_i, TRUST_REGION_T2), TRUST_REGION_UPPER_BOUND)
         ELSE radius_i
irls_tr_radius_new(radius_i, ratio_i) ==
    IF FLt(ratio_i, TRUST_REGION_ETA1)
    THEN RMul(radius_i, TRUST_REGION_T1)
    ELSE IF FGt(ratio_i, TRUST_REGION_ETA2)
         THEN RMin(RMul(radius_i, TRUST_REGION_T2), TRUST_REGION_UPPER_BOUND)
         ELSE radius_i

\* the gain, the ratio and the acceptance of feature i under the inputs c
ActualOf(c) == delta_f_actual(c.ll_eval, c.model_ll)
RatioOf(c) == delta_f_ratio(ActualOf(c), c.pred)
AcceptOf(c) == update_theta(ActualOf(c), RatioOf(c))

\* range(<delta>.shape[1]) of a delta tensor that is given: every delta
\* tensor has one column per feature of the parameter block
shape1(given) == IF given THEN Features ELSE {}

\* tf.assign_add(global_step, 1), and the increment apply_gradients makes
assign_plain(step, n) == n
assign_add(step, n) == step + n

\* the record of an execution: the op, its inputs and the state it ran in
Ran(op, inp) ==
    [op |-> op, inp |-> inp, variables |-> variables, nr_tr_radius |-> nr_tr_radius,
     irls_tr_radius |-> irls_tr_radius, features_updated |-> features_updated,
     global_step |-> global_step]

NoCase == Case(ColA, 0, 0, 0)
NotRun == [op |-> "none", inp |-> [i \in Features |-> NoCase], variables |-> <<>>,
           nr_tr_radius |-> <<>>, irls_tr_radius |-> <<>>, features_updated |-> <<>>,
           global_step |-> 0]

CanRun(attr) ==
    /\ trainer.ok
    /\ attr \in Built(trainer)
    /\ nExec < budget

\* session.run of one of train_op_GD, train_op_Adam, train_op_Adagrad,
\* train_op_RMSProp: optimizer.apply_gradients(gradients_vars, global_step)
RunGradient(attr) ==
    /\ CanRun(attr)
    /\ \E g \in DeltaTensors :
        /\ variables' = [i \in Features |-> theta_new_plain(variables[i], g[i])]
        /\ last' = Ran(trainer.attrs[attr][1], [i \in Features |-> Case(g[i], 0, 0, 0)])
    /\ global_step' = assign_add(global_step, 1)
    /\ nExec' = nExec + 1
    /\ UNCHANGED <<cfg, trainer, lookup, nr_tr_radius, irls_tr_radius, features_updated,
                   step0, budget, constrVars, fnVars, hookVars>>

RunGD == RunGradient("train_op_GD")
RunAdam == RunGradient("train_op_Adam")
RunAdagrad == RunGradient("train_op_Adagrad")
RunRMSProp == RunGradient("train_op_RMSProp")

\* session.run(train_op_nr); the variant also clears features_updated
RunNr_clears_flags ==
    /\ CanRun("train_op_nr")
    /\ \E d \in DeltaTensors :
        /\ variables' = [i \in Features |-> theta_new_plain(variables[i], d[i])]
        /\ last' = Ran("nr", [i \in Features |-> Case(d[i], 0, 0, 0)])
    /\ global_step' = assign_add(global_step, 1)
    /\ nExec' = nExec + 1
    /\ features_updated' = [i \in Features |-> FALSE]
    /\ UNCHANGED <<cfg, trainer, lookup, nr_tr_radius, irls_tr_radius,
                   step0, budget, constrVars, fnVars, hookVars>>
RunNr ==
    /\ CanRun("train_op_nr")
    /\ \E d \in DeltaTensors :
        /\ variables' = [i \in Features |-> theta_new_plain(variables[i], d[i])]
        /\ last' = Ran("nr", [i \in Features |-> Case(d[i], 0, 0, 0)])
    /\ global_step' = assign_add(global_step, 1)
    /\ nExec' = nExec + 1
    /\ UNCHANGED <<cfg, trainer, lookup, nr_tr_radius, irls_tr_radius, features_updated,
                   step0, budget, constrVars, fnVars, hookVars>>

\* session.run(train_op_irls)
RunIrls ==
    /\ CanRun("train_op_irls")
    /\ \E d \in DeltaTensors :
        /\ variables' = [i \in Features |-> theta_new_plain(variables[i], d[i])]
        /\ last' = Ran("irls", [i \in Features |-> Case(d[i], 0, 0, 0)])
    /\ global_step' = assign_add(global_step, 1)
    /\ nExec' = nExec + 1
    /\ UNCHANGED <<cfg, trainer, lookup, nr_tr_radius, irls_tr_radius, features_updated,
                   step0, budget, constrVars, fnVars, hookVars>>

\* update_theta as a tensor: one flag per feature. The variant accepts a
\* step only when every feature's step is accepted.
update_theta_tensor_all(inp) == [i \in Features |-> \A j \in Features : AcceptOf(inp[j])]
update_theta_tensor(inp) == [i \in Features |-> AcceptOf(inp[i])]

\* the values the assignments grouped in train_op_nr_tr write, from the
\* values of variables and nr_tr_radius the op reads
train_op_nr_tr_run(c, theta, radius, inp) ==
    [variables |->
        [i \in shape1(c.newton_tr_delta) |->
            theta_new_nr_tr(theta[i], theta_new(theta[i], radius[i], inp[i].delta),
                            update_theta_tensor(inp)[i])],
     radius |->
        [i \in shape1(c.newton_tr_delta) |-> nr_tr_radius_new(radius[i], RatioOf(inp[i]))],
     features_updated |-> update_theta_tensor(inp)]

\* the same for train_op_irls_tr; the radius is stacked over
\* range(newton_tr_delta.shape[1])
train_op_irls_tr_run(c, theta, radius, inp) ==
    [variables |->
        [i \in shape1(c.irls_tr_delta) |->
            theta_new_irls_tr(theta[i], theta_new(theta[i], radius[i], inp[i].delta),
                              update_theta_tensor(inp)[i])],
     radius |->
        [i \in shape1(c.newton_tr_delta) |-> irls_tr_radius_new(radius[i], RatioOf(inp[i]))],
     features_updated |-> update_theta_tensor(inp)]

\* session.run(train_op_nr_tr)
RunNrTr(Cases) ==
    /\ CanRun("train_op_nr_tr")
    /\ \E inp \in [Features -> Cases] :
        LET out == train_op_nr_tr_run(cfg, variables, nr_tr_radius, inp)
        IN  /\ variables' = out.variables
            /\ nr_tr_radius' = out.radius
            /\ features_updated' = out.features_updated
            /\ last' = Ran("nr_tr", inp)
    /\ global_step' = assign_add(global_step, 1)
    /\ nExec' = nExec + 1
    /\ UNCHANGED <<cfg, trainer, lookup, irls_tr_radius, step0, budget, constrVars, fnVars, hookVars>>

\* session.run(train_op_irls_tr)
RunIrlsTr(Cases) ==
    /\ CanRun("train_op_irls_tr")
    /\ \E inp \in [Features -> Cases] :
        LET out == train_op_irls_tr_run(cfg, variables, irls_tr_radius, inp)
        IN  /\ variables' = out.variables
            /\ irls_tr_radius' = out.radius
            /\ features_updated' = out.features_updated
            /\ last' = Ran("irls_tr", inp)
    /\ global_step' = assign_add(global_step, 1)
    /\ nExec' = nExec + 1
    /\ UNCHANGED <<cfg, trainer, lookup, nr_tr_radius, step0, budget, constrVars, fnVars, hookVars>>

\* a call of train_op_by_name on the constructed trainer (the call reads the
\* object and changes nothing, so one call per run shows them all)
TrainOpByName ==
    /\ trainer.ok
    /\ lookup = None
    /\ \E name \in Names :
        lookup' = Some([name |-> name, res |-> train_op_by_name(trainer, name)])
    /\ UNCHANGED <<cfg, trainer, variables, nr_tr_radius, irls_tr_radius, features_updated,
                   global_step, step0, nExec, budget, last, constrVars, fnVars, hookVars>>

-----------------------------------------------------------------------------
(* Specifications of the trainer *)

ZeroCol == <<<<0, 1>>, <<0, 1>>>>
NoCall == [mode |-> "none"]

ConstrIdle ==
    /\ cArgs = NoCall
    /\ cRes = NoCall

FnIdle ==
    /\ fnCall = NoCall
    /\ fnRes = NoCall

\* no hook is attached
NoHook == [mode |-> "none"]
HooksIdle ==
    /\ slHook = NoHook /\ slSess = NoHook
    /\ trHook = NoHook /\ trSess = NoHook

TrainerIdle ==
    /\ cfg = AllProvided
    /\ trainer = MultiTrainerInit(AllProvided)
    /\ lookup = None
    /\ variables = [i \in Features |-> ZeroCol]
    /\ nr_tr_radius = [i \in Features |-> TRUST_REGION_RADIUS_INIT]
    /\ irls_tr_radius = [i \in Features |-> TRUST_REGION_RADIUS_INIT]
    /\ features_updated = [i \in Features |-> FALSE]
    /\ global_step = 0
    /\ step0 = 0
    /\ nExec = 0
    /\ budget = 0
    /\ last = NotRun

\* global step values a trainer is built at
InitSteps == {0, 7}

\* Runs of up to MaxSteps update ops on a trainer built with every optimizer
Init ==
    /\ cfg = AllProvided
    /\ trainer = MultiTrainerInit(cfg)
    /\ lookup = None
    /\ variables = [i \in Features |-> ZeroCol]
    /\ nr_tr_radius = [i \in Features |-> TRUST_REGION_RADIUS_INIT]
    /\ irls_tr_radius = [i \in Features |-> TRUST_REGION_RADIUS_INIT]
    /\ features_updated = [i \in Features |-> FALSE]
    /\ global_step \in InitSteps
    /\ step0 = global_step
    /\ nExec = 0
    /\ budget = MaxSteps
    /\ last = NotRun
    /\ ConstrIdle
    /\ FnIdle
    /\ HooksIdle

Next ==
    \/ RunGD
    \/ RunAdam
    \/ RunAdagrad
    \/ RunRMSProp
    \/ RunNr
    \/ RunIrls
    \/ RunNrTr(SeqGainCases)
    \/ RunIrlsTr(SeqGainCases)

Spec == Init /\ [][Next]_vars

\* One execution of an update op from any state of parameters, radii and flags
InitStep ==
    /\ cfg = AllProvided
    /\ trainer = MultiTrainerInit(cfg)
    /\ lookup = None
    /\ variables = [i \in Features |-> ZeroCol]
    /\ nr_tr_radius \in [Features -> RadiusInits]
    /\ irls_tr_radius \in {[i \in Features |-> r] : r \in RadiusInits}
    /\ features_updated \in {[i \in Features |-> FALSE], [i \in Features |-> TRUE]}
    /\ global_step = 0
    /\ step0 = global_step
    /\ nExec = 0
    /\ budget = 1
    /\ last = NotRun
    /\ ConstrIdle
    /\ FnIdle
    /\ HooksIdle

NextStep ==
    \/ RunGD
    \/ RunAdam
    \/ RunAdagrad
    \/ RunRMSProp
    \/ RunNr
    \/ RunIrls
    \/ RunNrTr(GainCases)
    \/ RunIrlsTr(GainCases)

SpecStep == InitStep /\ [][NextStep]_vars

\* Construction with any arguments, then train_op_by_name
InitDispatch ==
    /\ cfg \in Configs
    /\ trainer = MultiTrainerInit(cfg)
    /\ lookup = None
    /\ variables = [i \in Features |-> ZeroCol]
    /\ nr_tr_radius = [i \in Features |-> TRUST_REGION_RADIUS_INIT]
    /\ irls_tr_radius = [i \in Features |-> TRUST_REGION_RADIUS_INIT]
    /\ features_updated = [i \in Features |-> FALSE]
    /\ global_step = 0
    /\ step0 = 0
    /\ nExec = 0
    /\ budget = 0
    /\ last = NotRun
    /\ ConstrIdle
    /\ FnIdle
    /\ HooksIdle

NextDispatch == TrainOpByName

SpecDispatch == InitDispatch /\ [][NextDispatch]_vars

-----------------------------------------------------------------------------
(* Trust region steps: what the last executed step did, restated from its
   inputs and the state it ran in *)

TrOps == {"nr_tr", "irls_tr"}

PreRadius(i) == IF last.op = "nr_tr" THEN last.nr_tr_radius[i] ELSE last.irls_tr_radius[i]
PostRadius(i) == IF last.op = "nr_tr" THEN nr_tr_radius[i] ELSE irls_tr_radius[i]

\* actual_gain = ll(candidate) - ll(theta), ratio = actual_gain / pred_gain
Gain(i) == RSub(last.inp[i].ll_eval, last.inp[i].model_ll)
Ratio(i) == Divide(Gain(i), last.inp[i].pred)
Candidate(i) == ColAxpy(last.variables[i], PreRadius(i), last.inp[i].delta)
Accepted(i) == RLt(TRUST_REGION_ETA0, Gain(i)) /\ FGt(Ratio(i), TRUST_REGION_ETA1)

\* C1: in one trust region step (nr_tr or irls_tr) and for every feature i,
\* the candidate theta[:,i] - radius[i]*delta[:,i] is committed and
\* features_updated[i] is true if and only if actual_gain[i] > eta0 and
\* ratio[i] > eta1; otherwise column i is unchanged and features_updated[i]
\* is false.
C1_Acceptance ==
    last.op \in TrOps =>
        \A i \in Features :
            /\ Accepted(i) <=> (variables[i] = Candidate(i) /\ features_updated[i])
            /\ ~Accepted(i) => (variables[i] = last.variables[i] /\ ~features_updated[i])

\* a step that accepts one feature and rejects another whose flag was set
C1_Witness ==
    /\ last.op \in TrOps
    /\ \E i, j \in Features :
        /\ Accepted(i) /\ variables[i] # last.variables[i] /\ features_updated[i]
        /\ ~Accepted(j) /\ RLt(TRUST_REGION_ETA0, Gain(j)) /\ last.features_updated[j]

\* C2: in one trust region step and for every feature i, whether or not the
\* candidate was accepted: if ratio[i] < eta1 the new radius is radius[i]*t1,
\* otherwise if ratio[i] > eta2 it is min(radius[i]*t2, upper_bound),
\* otherwise it is the old radius.
C2_RadiusUpdate ==
    last.op \in TrOps =>
        \A i \in Features :
            PostRadius(i) =
                IF FLt(Ratio(i), TRUST_REGION_ETA1)
                THEN RMul(PreRadius(i), TRUST_REGION_T1)
                ELSE IF FGt(Ratio(i), TRUST_REGION_ETA2)
                     THEN RMin(RMul(PreRadius(i), TRUST_REGION_T2), TRUST_REGION_UPPER_BOUND)
                     ELSE PreRadius(i)

\* a step with a rejected feature whose radius grows to the cap, an accepted
\* feature whose radius is kept and a feature with 0 < ratio < eta1 that shrinks
C2_Witness ==
    /\ last.op \in TrOps
    /\ \E i \in Features :
        /\ ~Accepted(i) /\ FGt(Ratio(i), TRUST_REGION_ETA2)
        /\ PostRadius(i) = TRUST_REGION_UPPER_BOUND
        /\ RLt(TRUST_REGION_UPPER_BOUND, RMul(PreRadius(i), TRUST_REGION_T2))
    /\ \E j \in Features :
        \/ Accepted(j) /\ PostRadius(j) = PreRadius(j)
        \/ /\ FLt(Ratio(j), TRUST_REGION_ETA1) /\ RLt(TRUST_REGION_ETA0, Ratio(j).v)
           /\ PostRadius(j) = RMul(PreRadius(j), TRUST_REGION_T1)

\* C3: starting from radii that are at most upper_bound, after any sequence
\* of update ops every radius is at most upper_bound, and a trust region step
\* with ratio < eta1 leaves that feature's radius strictly smaller.
C3_RadiusBounded ==
    /\ \A i \in Features :
        /\ RLe(nr_tr_radius[i], TRUST_REGION_UPPER_BOUND)
        /\ RLe(irls_tr_radius[i], TRUST_REGION_UPPER_BOUND)
    /\ last.op \in TrOps =>
        \A i \in Features :
            FLt(Ratio(i), TRUST_REGION_ETA1) => RLt(PostRadius(i), PreRadius(i))

\* the second step of a run: one radius capped at upper_bound although
\* radius*t2 is above it, another one shrunk
C3_Witness ==
    /\ nExec >= 2
    /\ last.op \in TrOps
    /\ \E i, j \in Features :
        /\ FGt(Ratio(i), TRUST_REGION_ETA2)
        /\ PostRadius(i) = TRUST_REGION_UPPER_BOUND
        /\ RLt(TRUST_REGION_UPPER_BOUND, RMul(PreRadius(i), TRUST_REGION_T2))
        /\ FLt(Ratio(j), TRUST_REGION_ETA1)
        /\ RLt(PostRadius(j), PreRadius(j))

\* C4: every execution of an update op adds exactly one to the global step,
\* also a trust region step that rejects every feature; after n executions
\* the counter is its initial value plus n.
C4_StepCounter ==
    /\ global_step = step0 + nExec
    /\ last.op # "none" => global_step = last.global_step + 1

\* a run that started at a non-zero step and ends with a trust region step
\* rejecting every feature
C4_Witness ==
    /\ step0 # 0
    /\ nExec = MaxSteps
    /\ last.op \in TrOps
    /\ \A i \in Features : ~Accepted(i) /\ ~features_updated[i]

-----------------------------------------------------------------------------
(* train_op_by_name *)

Recognised ==
    GdNames \cup {"adam", "adagrad", "rmsprop", "bfgs"} \cup NrNames \cup NrTrNames
    \cup IrlsNames \cup IrlsTrNames

\* the train op attribute of the strategy a (lower case) name denotes
StrategyAttr(nl) ==
    CASE nl \in GdNames -> "train_op_GD"
      [] nl = "adam" -> "train_op_Adam"
      [] nl = "adagrad" -> "train_op_Adagrad"
      [] nl = "rmsprop" -> "train_op_RMSProp"
      [] nl = "bfgs" -> "train_op_bfgs"
      [] nl \in NrNames -> "train_op_nr"
      [] nl \in NrTrNames -> "train_op_nr_tr"
      [] nl \in IrlsNames -> "train_op_irls"
      [] nl \in IrlsTrNames -> "train_op_irls_tr"

\* the op __init__ builds for a strategy
StrategyOp(nl) ==
    CASE nl \in GdNames -> "gd"
      [] nl = "adam" -> "adam"
      [] nl = "adagrad" -> "adagrad"
      [] nl = "rmsprop" -> "rmsprop"
      [] nl = "bfgs" -> "bfgs"
      [] nl \in NrNames -> "nr"
      [] nl \in NrTrNames -> "nr_tr"
      [] nl \in IrlsNames -> "irls"
      [] nl \in IrlsTrNames -> "irls_tr"

NotProvidedTexts ==
    {"Gradient decent not provided in initialization.",
     "Adam not provided in initialization.",
     "Adagrad decent not provided in initialization.",
     "RMSProp decent not provided in initialization.",
     "BFGS not provided in initialization.",
     "Newton-rhapson not provided in initialization.",
     "Newton-rhapson trust-region not provided in initialization.",
     "IRLS not provided in initialization."}

Called == lookup # None
CalledName == lookup[1].name
Result == lookup[1].res

\* C5: train_op_by_name returns the train op of the strategy the name
\* denotes: the Newton names train_op_nr, the Newton trust region names
\* train_op_nr_tr, irls/iwls train_op_irls, the IRLS trust region names
\* train_op_irls_tr; no name returns the op of another strategy.
C5_OneHandlerPerStrategy ==
    (Called /\ Result.kind = "return" /\ lower(CalledName) \in Recognised) =>
        Result.val = Some(StrategyOp(lower(CalledName)))

\* C6: a name that matches no recognised optimizer name fails with a
\* ValueError whose message contains the requested name, and returns no op.
C6_UnknownName ==
    (Called /\ lower(CalledName) \notin Recognised) =>
        /\ Result.kind = "raise"
        /\ Result.err = "ValueError"
        /\ \E k \in DOMAIN Result.msg : Result.msg[k] = CalledName
        /\ Result.val = None

\* an unknown name that is not lower case was looked up and raised
C6_Witness ==
    /\ Called
    /\ lower(CalledName) \notin Recognised
    /\ lower(CalledName) # CalledName
    /\ Result.kind = "raise"

\* C7: for every recognised name whose train op was not built at
\* initialization train_op_by_name raises ValueError "... not provided in
\* initialization"; it does not return None or another strategy's op and does
\* not fail with another kind of error.
C7_NotProvided ==
    (/\ Called
     /\ lower(CalledName) \in Recognised
     /\ StrategyAttr(lower(CalledName)) \notin Built(trainer)) =>
        /\ Result.kind = "raise"
        /\ Result.err = "ValueError"
        /\ Result.msg[1] \in NotProvidedTexts

-----------------------------------------------------------------------------
(* apply_constraints *)

\* A tensor of rank 2 is [nf |-> number of columns, rows |-> its rows]; a
\* constraint matrix (a numpy array) is the sequence of its rows.

Iota(n) == [k \in 1..n |-> k]

RECURSIVE Flatten(_)
Flatten(ss) == IF ss = <<>> THEN <<>> ELSE Head(ss) \o Flatten(Tail(ss))

Elems(s) == {s[k] : k \in DOMAIN s}

\* np.where(np.all(constraints != -1, axis=0))[0]
idx_indep(constraints) ==
    LET NoDep(j) == \A r \in DOMAIN constraints : constraints[r][j] # -1
    IN  SelectSeq(Iota(Len(constraints[1])), NoDep)

\* np.array([np.where(constr == -1)[0] for constr in constraints])
idx_dep_rows(constraints) ==
    [r \in DOMAIN constraints |->
        LET IsDep(j) == constraints[r][j] = -1
        IN  SelectSeq(Iota(Len(constraints[r])), IsDep)]

\* np.concatenate([x[[xx not in np.concatenate(idx_dep[:i]) for xx in x]]
\*                 if i > 0 else x for i, x in enumerate(idx_dep)])
idx_dep(constraints) ==
    LET raw == idx_dep_rows(constraints)
    IN  Flatten([r \in DOMAIN raw |->
            IF r > 1
            THEN LET NotAbove(xx) == xx \notin Elems(Flatten(SubSeq(raw, 1, r - 1)))
                 IN  SelectSeq(raw[r], NotAbove)
            ELSE raw[r]])

\* seq[:n] of python; the variant takes the whole sequence
Prefix_whole(seq, n) == seq
Prefix(seq, n) == SubSeq(seq, 1, IF n < Len(seq) THEN n ELSE Len(seq))

\* tf.gather(params, indices, axis=0)
gather(params, indices) ==
    [nf |-> params.nf, rows |-> [k \in DOMAIN indices |-> params.rows[indices[k]]]]

\* np.argsort of a sequence of distinct indices; the variant leaves the
\* order as it is
argsort_as_concatenated(seq) == [k \in DOMAIN seq |-> k]
argsort(seq) ==
    [k \in DOMAIN seq |->
        CHOOSE p \in DOMAIN seq : Cardinality({q \in DOMAIN seq : seq[q] < seq[p]}) = k - 1]

RECURSIVE DotCol(_, _, _, _)
DotCol(m, rows, f, k) ==
    IF k = 0 THEN 0 ELSE m[k] * rows[k][f] + DotCol(m, rows, f, k - 1)

\* tf.matmul of a 1 x k matrix with the k x nf tensor x: the 1 x nf product row
matmul(m, x) == [f \in 1..x.nf |-> DotCol(m, x.rows, f, Len(m))]

\* constraints[[i], :][:, idx_var_i], negated
constraint_model_plain(constraints, i, idx_var_i) ==
    [k \in DOMAIN idx_var_i |-> constraints[i][idx_var_i[k]]]
constraint_model(constraints, i, idx_var_i) ==
    [k \in DOMAIN idx_var_i |-> -constraints[i][idx_var_i[k]]]

CReturn(x) == [kind |-> "return", x |-> x, err |-> "", at |-> ""]
CRaise(e, at) == [kind |-> "raise", x |-> [nf |-> 0, rows |-> <<>>], err |-> e, at |-> at]

\* the initial parameter tensor: var_indep, or the independent rows of
\* var_all; giving both raises
initial_x_prefer_indep(var_all, var_indep, indep) ==
    IF var_indep # None THEN CReturn(var_indep)
    ELSE IF var_all # None THEN CReturn(Some(gather(var_all[1], indep)))
    ELSE CReturn(None)
initial_x(var_all, var_indep, indep) ==
    IF var_all = None THEN CReturn(var_indep)
    ELSE IF var_indep = None THEN CReturn(Some(gather(var_all[1], indep)))
    ELSE CRaise("ValueError", "only give var_all or var_indep to apply_constraints.")

\* the loop over the constraints from row i on, x being the optional tensor
\* built so far: tensorflow rejects None and operands whose shapes do not fit
RECURSIVE grow_x(_, _, _, _, _)
grow_x(constraints, indep, dep, x, i) ==
    IF i > Len(constraints) THEN CReturn(x)
    ELSE LET idx_var_i == indep \o Prefix(dep, i - 1)
             cm == constraint_model(constraints, i, idx_var_i)
         IN  IF x = None THEN CRaise("ValueError", "tf.matmul: None values not supported")
             ELSE IF Len(cm) # Len(x[1].rows)
             THEN CRaise("ValueError", "tf.matmul: dimensions must be equal")
             ELSE grow_x(constraints, indep, dep,
                         Some([nf |-> x[1].nf, rows |-> Append(x[1].rows, matmul(cm, x[1]))]),
                         i + 1)

apply_constraints(constraints, var_all, var_indep) ==
    LET indep == idx_indep(constraints)
        dep == idx_dep(constraints)
        x0 == initial_x(var_all, var_indep, indep)
    IN  IF x0.kind = "raise" THEN x0
        ELSE LET grown == grow_x(constraints, indep, dep, x0.x, 1)
             IN  IF grown.kind = "raise" THEN grown
                 ELSE IF grown.x = None
                 THEN CRaise("ValueError", "tf.gather: None values not supported")
                 ELSE CReturn(gather(grown.x[1], argsort(indep \o dep)))

-----------------------------------------------------------------------------
(* The calls of apply_constraints that are made *)

\* rows with exactly one -1 and 0 or 1 elsewhere
ConstraintRows(n) ==
    {row \in [1..n -> {-1, 0, 1}] : Cardinality({j \in 1..n : row[j] = -1}) = 1}

ConstraintMatrices ==
    UNION { [1..mn[1] -> ConstraintRows(mn[2])] :
            mn \in {p \in (1..MaxRows) \X (1..MaxCols) : p[1] * p[2] <= MaxCells} }

\* the parameter tensors passed: the identity (feature f carries parameter f
\* alone) and a tensor of two features with distinct entries
IdentityTensor(n) ==
    [nf |-> n, rows |-> [j \in 1..n |-> [f \in 1..n |-> IF f = j THEN 1 ELSE 0]]]
TwoFeatureTensor(n) ==
    [nf |-> 2, rows |-> [j \in 1..n |-> <<j + 1, 3 - j * j>>]]
ParamTensors(n) == {IdentityTensor(n), TwoFeatureTensor(n)}

ConstraintCalls ==
    UNION { UNION { { [mode |-> "all", constraints |-> c, var_all |-> Some(t), var_indep |-> None],
                      [mode |-> "indep", constraints |-> c, var_all |-> None,
                       var_indep |-> Some(gather(t, idx_indep(c)))],
                      [mode |-> "both", constraints |-> c, var_all |-> Some(t),
                       var_indep |-> Some(gather(t, idx_indep(c)))],
                      [mode |-> "neither", constraints |-> c, var_all |-> None,
                       var_indep |-> None] } :
                    t \in ParamTensors(Len(c[1])) } :
            c \in ConstraintMatrices }

ApplyConstraints ==
    /\ cRes = NoCall
    /\ cRes' = apply_constraints(cArgs.constraints, cArgs.var_all, cArgs.var_indep)
    /\ UNCHANGED <<cArgs, trainerVars, fnVars, hookVars>>

InitConstr ==
    /\ TrainerIdle
    /\ FnIdle
    /\ HooksIdle
    /\ cArgs \in ConstraintCalls
    /\ cRes = NoCall

NextConstr == ApplyConstraints

SpecConstr == InitConstr /\ [][NextConstr]_vars

-----------------------------------------------------------------------------
(* Claims about apply_constraints *)

CCalled == cRes # NoCall
OneGiven == (cArgs.var_all = None) # (cArgs.var_indep = None)
NCols == Len(cArgs.constraints[1])
Out == cRes.x.rows

\* the column a constraint row marks as dependent
DepOf(r) == CHOOSE j \in 1..NCols : cArgs.constraints[r][j] = -1
IsDepCol(j) == \E r \in DOMAIN cArgs.constraints : DepOf(r) = j

\* - sum over the other columns j of constraints[r][j] * x[j], for feature f
RECURSIVE Combination(_, _, _)
Combination(r, f, j) ==
    IF j = 0 THEN 0
    ELSE Combination(r, f, j - 1)
         - (IF j = DepOf(r) THEN 0 ELSE cArgs.constraints[r][j] * Out[j][f])

\* one dependent column per row, no column dependent twice, and a row refers
\* to dependent columns of earlier rows only
WellFormed ==
    /\ \A r1, r2 \in DOMAIN cArgs.constraints : r1 # r2 => DepOf(r1) # DepOf(r2)
    /\ \A r \in DOMAIN cArgs.constraints : \A j \in 1..NCols :
           (j # DepOf(r) /\ cArgs.constraints[r][j] # 0 /\ IsDepCol(j))
               => \E k \in 1..(r - 1) : DepOf(k) = j

Chained(r) ==
    \E k \in 1..(r - 1) : cArgs.constraints[r][DepOf(k)] # 0

HasDuplicate ==
    \E r1, r2 \in DOMAIN cArgs.constraints : r1 < r2 /\ DepOf(r1) = DepOf(r2)

\* the earliest row that marks column j as dependent
EarliestRow(j) ==
    CHOOSE r \in DOMAIN cArgs.constraints :
        DepOf(r) = j /\ \A k \in 1..(r - 1) : DepOf(k) # j

OnlyIndependent(r) ==
    \A j \in 1..NCols : (j # DepOf(r) /\ cArgs.constraints[r][j] # 0) => ~IsDepCol(j)

\* C8: a call of apply_constraints that is given both var_all and var_indep,
\* or neither of them, raises an error and returns no tensor.
C8_ExactlyOneInput ==
    (CCalled /\ ~OneGiven) => (cRes.kind = "raise" /\ cRes.err = "ValueError")

C8_Witness ==
    /\ CCalled
    /\ cArgs.var_all # None /\ cArgs.var_indep # None
    /\ cRes.kind = "raise"
    /\ cRes.at = "only give var_all or var_indep to apply_constraints."

\* C9: for a well-formed constraint matrix the returned tensor has one row
\* per column, and the row of every dependent column is minus the sum of the
\* other columns' rows weighted by that constraint's coefficients, also when
\* a constraint refers to the dependent column of an earlier constraint.
C9_LinearConstraints ==
    (CCalled /\ OneGiven /\ WellFormed) =>
        /\ cRes.kind = "return"
        /\ Len(Out) = NCols
        /\ \A r \in DOMAIN cArgs.constraints : \A f \in 1..cRes.x.nf :
               Out[DepOf(r)][f] = Combination(r, f, NCols)

C9_Witness ==
    /\ CCalled /\ OneGiven /\ WellFormed
    /\ cRes.kind = "return"
    /\ \E r \in DOMAIN cArgs.constraints :
           /\ Chained(r)
           /\ \E f \in 1..cRes.x.nf :
                  /\ Out[DepOf(r)][f] # 0
                  /\ Out[DepOf(r)][f] = Combination(r, f, NCols)

\* C10: when a later constraint row marks as dependent a column that an
\* earlier row already marked, the call still returns a tensor with exactly
\* one row per column, and the twice-marked column holds the combination of
\* the earliest row that marks it.
C10_DuplicateDependent ==
    (CCalled /\ OneGiven /\ HasDuplicate) =>
        /\ cRes.kind = "return"
        /\ Len(Out) = NCols
        /\ \A r1, r2 \in DOMAIN cArgs.constraints :
               (r1 < r2 /\ DepOf(r1) = DepOf(r2) /\ OnlyIndependent(EarliestRow(DepOf(r1))))
                   => \A f \in 1..cRes.x.nf :
                          Out[DepOf(r1)][f] = Combination(EarliestRow(DepOf(r1)), f, NCols)

\* a call with one twice-marked column does return one row per column
C10_SingleDuplicateReturns ==
    /\ CCalled /\ OneGiven /\ HasDuplicate
    /\ cRes.kind = "return"
    /\ Len(Out) = NCols

-----------------------------------------------------------------------------
(* param_bounds, tf_clip_param, np_clip_param *)

\* A float is [k |-> "fin", v |-> fraction], or infinite, or nan.
Fin(r) == [k |-> "fin", v |-> r]
PInf == [k |-> "pinf", v |-> <<0, 1>>]
NInf == [k |-> "ninf", v |-> <<0, 1>>]
NaN == [k |-> "nan", v |-> <<0, 1>>]

\* x < y on floats; every comparison with nan is false
FLess(x, y) ==
    /\ x.k # "nan" /\ y.k # "nan"
    /\ \/ x.k = "ninf" /\ y.k # "ninf"
       \/ y.k = "pinf" /\ x.k # "pinf"
       \/ x.k = "fin" /\ y.k = "fin" /\ RLt(x.v, y.v)
FLeq(x, y) == x.k # "nan" /\ y.k # "nan" /\ ~FLess(y, x)

\* A floating point type, by what np.finfo, np.nextafter and np.log give for
\* it: tiny = nextafter(0, inf), max = finfo.max, max_prev = nextafter(max,
\* -inf), log_tiny = log(tiny), log_max_prev = nextafter(log(max), -inf).
\* The type has 4 exponent and 6 fraction bits, so that its values fit the
\* integers of the model; like float32 and float64 it has max_prev / max
\* above 0.98.
SmallFloat ==
    [tiny |-> <<1, 4096>>, max |-> <<254, 1>>, max_prev |-> <<252, 1>>,
     log_tiny |-> <<-67, 8>>, log_max_prev |-> <<11, 2>>]
DTypes == {SmallFloat}

\* pkg_constants.ACCURACY_MARGIN_RELATIVE_TO_LIMIT: a margin below 1 and one
\* above 1
Margins == {<<49, 50>>, <<5, 2>>}

\* x / sf in the type: the quotient, infinite when it leaves the type's range
DivideBySf(x, sf, dtype) ==
    LET q == Rat(x[1] * sf[2], x[2] * sf[1])
    IN  IF RLt(dtype.max, q) THEN PInf
        ELSE IF RLt(q, <<-dtype.max[1], dtype.max[2]>>) THEN NInf
        ELSE Fin(q)

ParamNames == {"a", "b", "log_mu", "log_r", "mu", "r", "probs", "log_probs"}

bounds_min(dtype, sf) ==
    [name \in ParamNames |->
        CASE name \in {"a", "b", "log_mu", "log_r"} -> DivideBySf(dtype.log_tiny, sf, dtype)
          [] name \in {"mu", "r"} -> Fin(dtype.tiny)
          [] name = "probs" -> Fin(<<0, 1>>)
          [] name = "log_probs" -> Fin(dtype.log_tiny)]

bounds_max(dtype, sf) ==
    [name \in ParamNames |->
        CASE name \in {"a", "b", "log_mu", "log_r"} -> DivideBySf(dtype.log_max_prev, sf, dtype)
          [] name \in {"mu", "r"} -> DivideBySf(dtype.max_prev, sf, dtype)
          [] name = "probs" -> Fin(<<1, 1>>)
          [] name = "log_probs" -> Fin(<<0, 1>>)]

param_bounds(dtype, sf) == [min |-> bounds_min(dtype, sf), max |-> bounds_max(dtype, sf)]

\* np.minimum and np.maximum: nan propagates
np_minimum(x, y) ==
    IF x.k = "nan" \/ y.k = "nan" THEN NaN ELSE IF FLess(y, x) THEN y ELSE x
np_maximum(x, y) ==
    IF x.k = "nan" \/ y.k = "nan" THEN NaN ELSE IF FLess(x, y) THEN y ELSE x

\* np.clip(param, lo, hi)
np_clip_no_upper(param, lo, hi) == np_maximum(param, lo)
np_clip(param, lo, hi) == np_minimum(np_maximum(param, lo), hi)

\* tf.minimum and tf.maximum: with a nan operand the kernel returns either
\* operand, depending on the build
tf_minimum(x, y) == IF x.k = "nan" \/ y.k = "nan" THEN {x, y} ELSE {np_minimum(x, y)}
tf_maximum(x, y) == IF x.k = "nan" \/ y.k = "nan" THEN {x, y} ELSE {np_maximum(x, y)}

\* tf.clip_by_value(t, lo, hi) = maximum(minimum(t, hi), lo): the values it
\* may return
tf_clip_by_value(t, lo, hi) ==
    UNION {tf_maximum(t_min, lo) : t_min \in tf_minimum(t, hi)}

\* the values np_clip_param(param, name) and tf_clip_param(param, name) may
\* return for one entry of param
np_clip_param(param, name, dtype, sf) ==
    LET b == param_bounds(dtype, sf) IN {np_clip(param, b.min[name], b.max[name])}
tf_clip_param(param, name, dtype, sf) ==
    LET b == param_bounds(dtype, sf) IN tf_clip_by_value(param, b.min[name], b.max[name])

\* the entries the clipper is applied to
ClipInputs(dtype) ==
    {NInf, PInf, NaN}
    \cup {Fin(r) : r \in {<<-254, 1>>, <<-9, 1>>, <<-4, 1>>, <<-1, 1>>, <<0, 1>>, <<1, 2>>,
                          <<1, 1>>, <<3, 1>>, <<6, 1>>, <<253, 1>>,
                          dtype.tiny, dtype.max, dtype.max_prev, dtype.log_tiny,
                          dtype.log_max_prev}}
    \cup UNION {{bounds_min(dtype, sf)[n], bounds_max(dtype, sf)[n]} :
                sf \in Margins, n \in ParamNames}

ClipCalls ==
    [mode : {"clip"}, fn : {"np_clip_param", "tf_clip_param"}, name : ParamNames,
     dtype : DTypes, sf : Margins, param : UNION {ClipInputs(d) : d \in DTypes}]

\* the entry the next application of the clipper gets: the argument, or what
\* the previous application returned
ClipArg == IF fnRes = NoCall THEN fnCall.param ELSE fnRes.out[Len(fnRes.out)]

ClipParam ==
    /\ fnCall # NoCall /\ fnCall.mode = "clip"
    /\ IF fnRes = NoCall THEN TRUE ELSE Len(fnRes.out) < MaxClips
    /\ \E r \in (IF fnCall.fn = "np_clip_param"
                 THEN np_clip_param(ClipArg, fnCall.name, fnCall.dtype, fnCall.sf)
                 ELSE tf_clip_param(ClipArg, fnCall.name, fnCall.dtype, fnCall.sf)) :
           fnRes' = [mode |-> "clip",
                     out |-> (IF fnRes = NoCall THEN <<>> ELSE fnRes.out) \o <<r>>]
    /\ UNCHANGED <<fnCall, trainerVars, constrVars, hookVars>>

InitClip ==
    /\ TrainerIdle
    /\ ConstrIdle
    /\ fnCall \in ClipCalls
    /\ fnRes = NoCall
    /\ HooksIdle

NextClip == ClipParam

SpecClip == InitClip /\ [][NextClip]_vars

-----------------------------------------------------------------------------
(* Claims about the clipper *)

ClipBounds == param_bounds(fnCall.dtype, fnCall.sf)
ClipMin == ClipBounds.min[fnCall.name]
ClipMax == ClipBounds.max[fnCall.name]
Clipped == fnRes # NoCall

\* C11: for every named quantity the lower bound is at most the upper
\* bound, every entry the clipper returns lies between the two bounds
\* whatever the entry it was given, and clipping a clipped finite entry
\* returns it unchanged.
C11_ClipBoundedIdempotent ==
    Clipped =>
        /\ FLeq(ClipMin, ClipMax)
        /\ FLeq(ClipMin, fnRes.out[1]) /\ FLeq(fnRes.out[1], ClipMax)
        /\ (fnCall.param.k = "fin" /\ Len(fnRes.out) >= 2) => fnRes.out[2] = fnRes.out[1]

\* the same for every entry that is not nan
C11_ExceptNan ==
    (Clipped /\ fnCall.param.k # "nan") =>
        /\ FLeq(ClipMin, ClipMax)
        /\ FLeq(ClipMin, fnRes.out[1]) /\ FLeq(fnRes.out[1], ClipMax)
        /\ (fnCall.param.k = "fin" /\ Len(fnRes.out) >= 2) => fnRes.out[2] = fnRes.out[1]

-----------------------------------------------------------------------------
(* StopAtLossHook *)

RAdd(a, b) == Rat(a[1] * b[2] + b[1] * a[2], a[2] * b[2])

RECURSIVE SumFin(_, _)
SumFin(arr, k) == IF k = 0 THEN <<0, 1>> ELSE RAdd(arr[k].v, SumFin(arr, k - 1))

\* np.mean of an array of floats
np_mean(arr) ==
    LET kinds == {arr[k].k : k \in DOMAIN arr}
    IN  IF "nan" \in kinds \/ {"pinf", "ninf"} \subseteq kinds THEN NaN
        ELSE IF "pinf" \in kinds THEN PInf
        ELSE IF "ninf" \in kinds THEN NInf
        ELSE Fin(RMul(SumFin(arr, Len(arr)), <<1, Len(arr)>>))

\* np.abs(x - y); in the variant two infinities of one sign cancel
np_abs_diff_inf_cancels(x, y) ==
    IF x.k = "nan" \/ y.k = "nan" THEN NaN
    ELSE IF x.k = "fin" /\ y.k = "fin"
         THEN LET d == RSub(x.v, y.v) IN Fin(<<Abs(d[1]), d[2]>>)
    ELSE IF x.k = y.k THEN Fin(<<0, 1>>)
    ELSE PInf
np_abs_diff(x, y) ==
    IF x.k = "nan" \/ y.k = "nan" THEN NaN
    ELSE IF x.k = "fin" /\ y.k = "fin"
         THEN LET d == RSub(x.v, y.v) IN Fin(<<Abs(d[1]), d[2]>>)
    ELSE IF x.k = y.k THEN NaN
    ELSE PInf

\* the hook after __init__, begin and after_create_session at global step g
StopAtLossHookInit(min_loss_change, loss_averaging_steps, g) ==
    [mode |-> "StopAtLossHook",
     loss_history |-> [k \in 1..loss_averaging_steps |-> PInf],
     last_step |-> g,
     last_loss |-> None,
     min_loss_change |-> min_loss_change]

\* the loss_change property
loss_change(self) ==
    IF self.last_loss = None THEN PInf
    ELSE np_abs_diff(self.last_loss[1], np_mean(self.loss_history))

\* _update_loss_change(step, loss_value); array index i is position i + 1
update_loss_change(self, step, loss_value) ==
    LET size == Len(self.loss_history)
    IN  [self EXCEPT
            !.last_loss = IF step % size = 0 THEN Some(np_mean(self.loss_history)) ELSE @,
            !.loss_history = [@ EXCEPT ![(step % size) + 1] = loss_value]]

\* loss_change < self.min_loss_change
below_threshold_flipped(change, min_loss_change) == FLess(Fin(min_loss_change), change)
below_threshold(change, min_loss_change) == FLess(change, Fin(min_loss_change))

\* after_run: the hook afterwards, whether request_stop was called, and the
\* loss change the decision was taken on (None when the run was skipped)
after_run_StopAtLoss(self, step, loss) ==
    IF step >= self.last_step
    THEN [hook |-> update_loss_change([self EXCEPT !.last_step = step],
                                      step, loss),
          request_stop |-> below_threshold(loss_change(self), self.min_loss_change),
          change |-> Some(loss_change(self))]
    ELSE [hook |-> self, request_stop |-> FALSE, change |-> None]

\* the values drawn
Windows == 1..MaxWindow
MaxLossRuns == 2 * MaxWindow + 2
Losses == {Fin(<<1, 1>>), Fin(<<2, 1>>)}
MinLossChanges == {<<1, 1000>>, <<2, 1>>}
LossInitSteps == 0..(MaxWindow - 1)

\* one session.run of the training loop: the train op advances the global
\* step, and after_run sees the fetched global step and loss
LossRun ==
    /\ slHook # NoHook
    /\ ~slSess.stop_requested
    /\ slSess.nRuns < MaxLossRuns
    /\ \E loss \in Losses :
          LET g == slSess.global_step + 1
              res == after_run_StopAtLoss(slHook, g, loss)
          IN  /\ slHook' = res.hook
              /\ slSess' = [slSess EXCEPT
                                !.global_step = g,
                                !.nRuns = @ + 1,
                                !.losses = Append(@, loss),
                                !.change = res.change,
                                !.stop_requested = res.request_stop]
    /\ UNCHANGED <<trainerVars, constrVars, fnVars, trHook, trSess>>

InitLoss ==
    /\ TrainerIdle
    /\ ConstrIdle
    /\ FnIdle
    /\ trHook = NoHook /\ trSess = NoHook
    /\ \E m \in MinLossChanges, w \in Windows, g \in LossInitSteps :
          /\ slHook = StopAtLossHookInit(m, w, g)
          /\ slSess = [mode |-> "session", global_step |-> g, step0 |-> g, nRuns |-> 0,
                       losses |-> <<>>, change |-> None, stop_requested |-> FALSE]

NextLoss == LossRun

SpecLoss == InitLoss /\ [][NextLoss]_vars

-----------------------------------------------------------------------------
(* Claims about StopAtLossHook *)

LossW == Len(slHook.loss_history)
LossN == slSess.nRuns
AllLossesEqual == \A i, j \in DOMAIN slSess.losses : slSess.losses[i] = slSess.losses[j]

WindowMean(hi) == np_mean(SubSeq(slSess.losses, hi - LossW + 1, hi))
WindowChange(hi) == np_abs_diff(WindowMean(hi), WindowMean(hi - LossW))

\* the last run at or before the current one whose step is a multiple of W
LastEvaluation == LossN - (slSess.global_step % LossW)

\* C13: the loss change a stop decision is taken on is the absolute
\* difference of the means of the two most recent disjoint windows of W
\* losses (the later one ending at the current or the previous run), or
\* that difference as it was evaluated at the last step that is a multiple
\* of W.
C13_DisjointWindows ==
    (slHook # NoHook /\ LossN >= 1 /\ LastEvaluation - 1 >= 2 * LossW) =>
        slSess.change \in {Some(WindowChange(h)) :
                             h \in {LossN, LossN - 1, LastEvaluation, LastEvaluation - 1}}

-----------------------------------------------------------------------------
(* TimedRunHook *)

RECURSIVE SumSeq(_)
SumSeq(q) == IF q = <<>> THEN 0 ELSE Head(q) + SumSeq(Tail(q))

\* the hook after __init__ and begin
TimedRunHookInit(run_steps, step_offset, run_secs, call_request_tensors, call_fn, asynchronous) ==
    [mode |-> "TimedRunHook",
     time_measures |-> <<>>,
     threads |-> <<>>,
     step_offset |-> step_offset,
     call_request_tensors |-> call_request_tensors,
     call_fn |-> call_fn,
     asynchronous |-> asynchronous,
     run_secs |-> run_secs,
     run_steps |-> run_steps,
     next_step |-> None]

\* shall_request, when time.time() gives now
shall_request_no_offset(self, now) ==
    \/ self.run_steps # None /\ self.next_step[1] % self.run_steps[1] = 0
    \/ /\ self.run_secs # None /\ Len(self.time_measures) > 0
       /\ SumSeq(self.time_measures) > now
shall_request(self, now) ==
    \/ self.run_steps # None
           /\ (self.next_step[1] - self.step_offset) % self.run_steps[1] = 0
    \/ /\ self.run_secs # None /\ Len(self.time_measures) > 0
       /\ SumSeq(self.time_measures) > now

\* before_run when the global step is g: the hook afterwards and the
\* fetches it asks for. The variant decides by another rule than after_run.
before_run_other_decision(self, g, now) ==
    LET h == IF self.next_step = None THEN [self EXCEPT !.next_step = Some(g + 1)] ELSE self
    IN  [hook |-> h,
         requests |-> {"global_step"} \cup
                      (IF shall_request_no_offset(h, now) /\ h.call_request_tensors # None
                       THEN h.call_request_tensors[1] ELSE {})]
before_run(self, g, now) ==
    LET h == IF self.next_step = None THEN [self EXCEPT !.next_step = Some(g + 1)] ELSE self
    IN  [hook |-> h,
         requests |-> {"global_step"} \cup
                      (IF shall_request(h, now) /\ h.call_request_tensors # None
                       THEN h.call_request_tensors[1] ELSE {})]

\* self._threads.append(thread)
threads_not_recorded(threads, thread) == threads
threads_append(threads, thread) == Append(threads, thread)

\* a call of call_fn: the run it was made in, the global step and the
\* requested data it got, the time measures at the time of the call, what
\* the callback found in the list when it read it, and how far it got
Invocation(run, g, measures, data, asynchronous) ==
    [run |-> run, global_step |-> g, sent |-> measures, request_data |-> data,
     asynchronous |-> asynchronous,
     observed |-> IF asynchronous THEN None ELSE Some(measures),
     status |-> IF asynchronous THEN "started" ELSE "done"]

\* the time measure of the k-th session run: k seconds, so that the
\* measures of different runs differ
TimeDelta(k) == k

\* after_run up to the start of the thread (asynchronous) or to its end:
\* hook is the hook afterwards, fired tells whether call_fn was invoked,
\* rest whether time_measures.clear() and the _next_step update are still
\* to come. The variant lacks the early return.
after_run_Timed_counts_every_run(self, g, results, time_delta, run, now) ==
    IF FALSE
    THEN [hook |-> self, counted |-> FALSE, fired |-> FALSE, rest |-> FALSE, inv |-> <<>>]
    ELSE LET h == [self EXCEPT !.time_measures = Append(@, time_delta)]
             data == results \ {"global_step"}
         IN  IF ~shall_request(h, now)
             THEN [hook |-> [h EXCEPT !.next_step = Some(g + 1)],
                   counted |-> TRUE, fired |-> FALSE, rest |-> FALSE, inv |-> <<>>]
             ELSE IF h.call_fn = None
             THEN [hook |-> [h EXCEPT !.time_measures = <<>>, !.next_step = Some(g + 1)],
                   counted |-> TRUE, fired |-> FALSE, rest |-> FALSE, inv |-> <<>>]
             ELSE IF h.asynchronous
             THEN [hook |-> h, counted |-> TRUE, fired |-> TRUE, rest |-> TRUE,
                   inv |-> <<Invocation(run, g, h.time_measures, data, TRUE)>>]
             ELSE [hook |-> [h EXCEPT !.time_measures = <<>>, !.next_step = Some(g + 1)],
                   counted |-> TRUE, fired |-> TRUE, rest |-> FALSE,
                   inv |-> <<Invocation(run, g, h.time_measures, data, FALSE)>>]
after_run_Timed(self, g, results, time_delta, run, now) ==
    IF g < self.next_step[1]
    THEN [hook |-> self, counted |-> FALSE, fired |-> FALSE, rest |-> FALSE, inv |-> <<>>]
    ELSE LET h == [self EXCEPT !.time_measures = Append(@, time_delta)]
             data == results \ {"global_step"}
         IN  IF ~shall_request(h, now)
             THEN [hook |-> [h EXCEPT !.next_step = Some(g + 1)],
                   counted |-> TRUE, fired |-> FALSE, rest |-> FALSE, inv |-> <<>>]
             ELSE IF h.call_fn = None
             THEN [hook |-> [h EXCEPT !.time_measures = <<>>, !.next_step = Some(g + 1)],
                   counted |-> TRUE, fired |-> FALSE, rest |-> FALSE, inv |-> <<>>]
             ELSE IF h.asynchronous
             THEN [hook |-> h, counted |-> TRUE, fired |-> TRUE, rest |-> TRUE,
                   inv |-> <<Invocation(run, g, h.time_measures, data, TRUE)>>]
             ELSE [hook |-> [h EXCEPT !.time_measures = <<>>, !.next_step = Some(g + 1)],
                   counted |-> TRUE, fired |-> TRUE, rest |-> FALSE,
                   inv |-> <<Invocation(run, g, h.time_measures, data, FALSE)>>]

\* the values drawn
RunStepsValues == {None} \cup {Some(n) : n \in 1..MaxRunSteps}
StepOffsets == {0, 1}
RunSecsValues == {None, Some(1)}
RequestTensors == {None, Some({"summary"})}
CallFns == {None, Some("call_fn")}
TimedInitSteps == {0, 1}
ClockStarts == {1000}

\* one session.run of the main loop: before_run, the run itself, which
\* advances the global step or not, and after_run
TimedRun ==
    /\ trHook # NoHook
    /\ trSess.pc = "loop"
    /\ trSess.nRuns < MaxTimedRuns
    /\ \E adv \in {0, 1} :
          LET run == trSess.nRuns + 1
              before == before_run(trHook, trSess.global_step, trSess.now)
              g == trSess.global_step + adv
              now == trSess.now + TimeDelta(run)
              after == after_run_Timed(before.hook, g, before.requests, TimeDelta(run), run, now)
              n == Len(trSess.invocations) + 1
          IN  /\ trHook' = IF after.fired /\ after.rest
                           THEN [after.hook EXCEPT !.threads = threads_append(@, n)]
                           ELSE after.hook
              /\ trSess' = [trSess EXCEPT
                                !.global_step = g,
                                !.now = now,
                                !.nRuns = run,
                                !.pc = IF after.rest THEN "clear" ELSE "loop",
                                !.fetched = g,
                                !.invocations = @ \o after.inv,
                                !.runs = Append(@, [expected |-> before.hook.next_step[1],
                                                    fetched |-> g,
                                                    advanced |-> adv = 1,
                                                    requests |-> before.requests,
                                                    counted |-> after.counted,
                                                    fired |-> after.fired,
                                                    time_delta |-> TimeDelta(run)])]
    /\ UNCHANGED <<trainerVars, constrVars, fnVars, slHook, slSess>>

\* the rest of after_run, after thread.start() and _threads.append
TimedAfterRunRest ==
    /\ trHook # NoHook
    /\ trSess.pc = "clear"
    /\ trHook' = [trHook EXCEPT !.time_measures = <<>>,
                                !.next_step = Some(trSess.fetched + 1)]
    /\ trSess' = [trSess EXCEPT !.pc = "loop"]
    /\ UNCHANGED <<trainerVars, constrVars, fnVars, slHook, slSess>>

\* a callback thread reads its time_measures argument, the hook's list
CallbackObserve ==
    /\ trHook # NoHook
    /\ \E i \in DOMAIN trSess.invocations :
          /\ trSess.invocations[i].status = "started"
          /\ trSess' = [trSess EXCEPT
                            !.invocations[i].observed = Some(trHook.time_measures),
                            !.invocations[i].status = "observed"]
    /\ UNCHANGED <<trainerVars, constrVars, fnVars, slHook, slSess, trHook>>

\* a callback thread returns
CallbackFinish ==
    /\ trHook # NoHook
    /\ \E i \in DOMAIN trSess.invocations :
          /\ trSess.invocations[i].status = "observed"
          /\ trSess' = [trSess EXCEPT !.invocations[i].status = "done"]
    /\ UNCHANGED <<trainerVars, constrVars, fnVars, slHook, slSess, trHook>>

\* end(session) is entered, and returns at once when there is no thread
TimedEnd ==
    /\ trHook # NoHook
    /\ trSess.pc = "loop"
    /\ trSess' = [trSess EXCEPT !.pc = IF trHook.threads = <<>> THEN "ended" ELSE "joining",
                                !.join = 1]
    /\ UNCHANGED <<trainerVars, constrVars, fnVars, slHook, slSess, trHook>>

\* i.join() for the next thread of self._threads; end returns after the last
TimedJoin ==
    /\ trHook # NoHook
    /\ trSess.pc = "joining"
    /\ trSess.invocations[trHook.threads[trSess.join]].status = "done"
    /\ trSess' = [trSess EXCEPT !.pc = IF trSess.join = Len(trHook.threads)
                                       THEN "ended" ELSE "joining",
                                !.join = @ + 1]
    /\ UNCHANGED <<trainerVars, constrVars, fnVars, slHook, slSess, trHook>>

InitTimed ==
    /\ TrainerIdle
    /\ ConstrIdle
    /\ FnIdle
    /\ slHook = NoHook /\ slSess = NoHook
    /\ \E rs \in RunStepsValues, off \in StepOffsets, secs \in RunSecsValues,
          crt \in RequestTensors, fn \in CallFns, asyn \in BOOLEAN :
          trHook = TimedRunHookInit(rs, off, secs, crt, fn, asyn)
    /\ \E g \in TimedInitSteps, t \in ClockStarts :
          trSess = [mode |-> "session", global_step |-> g, now |-> t, nRuns |-> 0,
                    pc |-> "loop", join |-> 0, fetched |-> g,
                    invocations |-> <<>>, runs |-> <<>>]

NextTimed ==
    \/ TimedRun
    \/ TimedAfterRunRest
    \/ CallbackObserve
    \/ CallbackFinish
    \/ TimedEnd
    \/ TimedJoin

SpecTimed == InitTimed /\ [][NextTimed]_vars

-----------------------------------------------------------------------------
(* Claims about TimedRunHook *)

Timed == trHook # NoHook
Invocations == trSess.invocations
Runs == trSess.runs

\* C14: with asynchronous = True every started callback thread is recorded
\* in _threads, and when end(session) has returned every started thread has
\* completed.
C14_ThreadsJoined ==
    (Timed /\ trHook.asynchronous) =>
        /\ \A i \in DOMAIN Invocations : i \in Elems(trHook.threads)
        /\ trSess.pc = "ended" =>
               \A i \in DOMAIN Invocations : Invocations[i].status = "done"

\* end has returned after two firings, and the first callback was still
\* running when the later run fired the second
C14_Witness ==
    /\ Timed /\ trHook.asynchronous
    /\ trSess.pc = "ended"
    /\ Len(Invocations) >= 2
    /\ Invocations[1].observed = Some(Invocations[2].sent)

\* after_run has returned and a later run was made while a callback thread
\* had not completed
C14_NoWaiting ==
    /\ Timed /\ trHook.asynchronous
    /\ trSess.pc = "loop"
    /\ \E i \in DOMAIN Invocations :
          Invocations[i].status = "started" /\ Invocations[i].run < trSess.nRuns

AllAdvanced == \A k \in DOMAIN Runs : Runs[k].advanced

\* C15: with run_steps = N, no run_secs and a global step that advances by
\* one per run, call_fn is invoked in exactly the runs whose expected step
\* s has (s - step_offset) mod N = 0.
C15_EveryNSteps ==
    (Timed /\ trHook.run_steps # None /\ trHook.run_secs = None
           /\ trHook.call_fn # None /\ AllAdvanced) =>
        \A k \in DOMAIN Runs :
            /\ Runs[k].expected = trSess.global_step - Len(Runs) + k
            /\ Runs[k].fired <=>
                   (Runs[k].expected - trHook.step_offset) % trHook.run_steps[1] = 0

C15_Witness ==
    /\ Timed /\ trHook.run_steps = Some(2) /\ trHook.run_secs = None
    /\ trHook.step_offset = 1
    /\ trHook.call_fn # None /\ AllAdvanced
    /\ Len(Runs) = 3
    /\ Runs[1].fired /\ ~Runs[2].fired /\ Runs[3].fired

\* the time measures of the counted runs after the last run before run k
\* that fired, up to run k
RECURSIVE MeasuresSince(_, _)
MeasuresSince(k, j) ==
    IF j = 0 \/ Runs[j].fired THEN <<>>
    ELSE MeasuresSince(k, j - 1) \o (IF Runs[j].counted THEN <<Runs[j].time_delta>> ELSE <<>>)
MeasuresFor(k) == MeasuresSince(k, k - 1) \o <<Runs[k].time_delta>>

\* C16: the time_measures a callback finds are the measures of the counted
\* runs since call_fn was called the last time, the current run included.
C16_TimeMeasuresObserved ==
    Timed =>
        \A i \in DOMAIN Invocations :
            Invocations[i].observed # None =>
                /\ Invocations[i].observed[1] = MeasuresFor(Invocations[i].run)
                /\ Len(Invocations[i].observed[1]) >= 1

\* the same for callbacks that are called in the main thread
C16_Synchronous ==
    (Timed /\ ~trHook.asynchronous) =>
        \A i \in DOMAIN Invocations :
            /\ Invocations[i].observed = Some(MeasuresFor(Invocations[i].run))
            /\ Len(Invocations[i].sent) >= 1

-----------------------------------------------------------------------------
(* ModelVars *)

\* tensors of floats: [nf, rows] with float entries. apply_constraints above
\* computes on integer entries; a float tensor is handed to it in units of
\* 1/d, d a common denominator of its entries, and the result taken back.
Lcm(a, b) == (a * b) \div Gcd(a, b)

RECURSIVE LcmSeq(_)
LcmSeq(q) == IF q = <<>> THEN 1 ELSE Lcm(Head(q), LcmSeq(Tail(q)))

CommonDen(t) == LcmSeq(Flatten([i \in DOMAIN t.rows |-> [f \in 1..t.nf |-> t.rows[i][f].v[2]]]))

InUnits(t, d) ==
    [nf |-> t.nf,
     rows |-> [i \in DOMAIN t.rows |->
                  [f \in 1..t.nf |-> t.rows[i][f].v[1] * (d \div t.rows[i][f].v[2])]]]

FromUnits(t, d) ==
    [nf |-> t.nf,
     rows |-> [i \in DOMAIN t.rows |-> [f \in 1..t.nf |-> Fin(Rat(t.rows[i][f], d))]]]

apply_constraints_float(constraints, var_all, var_indep) ==
    LET given == IF var_all # None THEN var_all[1] ELSE var_indep[1]
        d == IF var_all = None /\ var_indep = None THEN 1 ELSE CommonDen(given)
        units(v) == IF v = None THEN None ELSE Some(InUnits(v[1], d))
        res == apply_constraints(constraints, units(var_all), units(var_indep))
    IN  IF res.kind = "raise" THEN res ELSE CReturn(FromUnits(res.x, d))

\* tf_clip_param on a tensor whose entries are not nan (one value possible)
tf_clip_tensor(t, name, dtype, sf) ==
    [nf |-> t.nf,
     rows |-> [i \in DOMAIN t.rows |->
                  [f \in 1..t.nf |->
                      CHOOSE v \in tf_clip_param(t.rows[i][f], name, dtype, sf) : TRUE]]]

\* def apply_constraints(constraints, dtype, var_all=None, var_indep=None)
apply_constraints_params == <<"constraints", "dtype", "var_all", "var_indep">>

\* python's binding of a call with npos positional arguments and the keyword
\* arguments kw to the parameters: a parameter given both ways is a TypeError
multiple_values(params, npos, kw) ==
    \E k \in 1..npos : k <= Len(params) /\ params[k] \in kw

\* apply_constraints(constraints_loc, a_var, dtype=dtype), as ModelVars calls
\* it: two positional arguments and the keyword dtype
apply_constraints_from_ModelVars(constraints, var, dtype) ==
    IF multiple_values(apply_constraints_params, 2, {"dtype"})
    THEN CRaise("TypeError", "apply_constraints() got multiple values for argument 'dtype'")
    ELSE apply_constraints_float(constraints, None, None)

MVReturn(a, b, a_var, b_var, params) ==
    [mode |-> "ModelVars", kind |-> "return", err |-> "", a |-> a, b |-> b,
     a_var |-> a_var, b_var |-> b_var, params |-> params,
     converged |-> [f \in 1..params.nf |-> FALSE], n_features |-> params.nf]
MVRaise(e) ==
    [mode |-> "ModelVars", kind |-> "raise", err |-> e]

\* ModelVars.__init__
ModelVars(dtype, sf, init_a, init_b, constraints_loc, constraints_scale) ==
    LET a0 == tf_clip_tensor(init_a, "a", dtype, sf)
        b0 == tf_clip_tensor(init_b, "b", dtype, sf)
        a1 == IF constraints_loc # None THEN gather(a0, idx_indep(constraints_loc[1])) ELSE a0
        b1 == IF constraints_scale # None THEN gather(b0, idx_indep(constraints_scale[1])) ELSE b0
        params == [nf |-> a1.nf, rows |-> a1.rows \o b1.rows]
        a_var == [nf |-> params.nf, rows |-> SubSeq(params.rows, 1, Len(a1.rows))]
        b_var == [nf |-> params.nf, rows |-> SubSeq(params.rows, Len(a1.rows) + 1, Len(params.rows))]
        a == IF constraints_loc # None
             THEN apply_constraints_from_ModelVars(constraints_loc[1], a_var, dtype)
             ELSE CReturn(a_var)
        b == IF constraints_scale # None
             THEN apply_constraints_from_ModelVars(constraints_scale[1], b_var, dtype)
             ELSE CReturn(b_var)
    IN  IF a.kind = "raise" THEN MVRaise(a.err)
        ELSE IF b.kind = "raise" THEN MVRaise(b.err)
        ELSE MVReturn(tf_clip_tensor(a.x, "a", dtype, sf), tf_clip_tensor(b.x, "b", dtype, sf),
                      a_var, b_var, params)

\* the arguments drawn: two parameters per model, one feature, one
\* constraint at most
InitValues == {-4, -1, 3}
InitTensors ==
    {[nf |-> 1, rows |-> <<<<Fin(<<x, 1>>)>>, <<Fin(<<y, 1>>)>>>>] : x, y \in InitValues}
ModelVarsConstraints ==
    {None} \cup {Some(c) : c \in {m \in ConstraintMatrices : Len(m) = 1 /\ Len(m[1]) = 2}}

ModelVarsCalls ==
    [mode : {"ModelVars"}, dtype : DTypes, sf : Margins, init_a : InitTensors,
     init_b : InitTensors, constraints_loc : ModelVarsConstraints,
     constraints_scale : ModelVarsConstraints]

NewModelVars ==
    /\ fnCall # NoCall /\ fnCall.mode = "ModelVars"
    /\ fnRes = NoCall
    /\ fnRes' = ModelVars(fnCall.dtype, fnCall.sf, fnCall.init_a, fnCall.init_b,
                          fnCall.constraints_loc, fnCall.constraints_scale)
    /\ UNCHANGED <<fnCall, trainerVars, constrVars, hookVars>>

InitModelVars ==
    /\ TrainerIdle
    /\ ConstrIdle
    /\ HooksIdle
    /\ fnCall \in ModelVarsCalls
    /\ fnRes = NoCall

NextModelVars == NewModelVars

SpecModelVars == InitModelVars /\ [][NextModelVars]_vars

-----------------------------------------------------------------------------
(* Claims about ModelVars *)

MVBuilt == fnCall # NoCall /\ fnCall.mode = "ModelVars" /\ fnRes # NoCall

\* what the claim says a (or b) is, given the constraints and the
\* independent slice: the clipped reconstruction, or the clipped slice
Reconstructed(constraints, var, name) ==
    IF constraints = None THEN tf_clip_tensor(var, name, fnCall.dtype, fnCall.sf)
    ELSE tf_clip_tensor(apply_constraints_float(constraints[1], None, Some(var)).x,
                        name, fnCall.dtype, fnCall.sf)

\* the independent slices the constructor takes from the initial values
SliceOf(constraints, init, name) ==
    LET c == tf_clip_tensor(init, name, fnCall.dtype, fnCall.sf)
    IN  IF constraints = None THEN c ELSE gather(c, idx_indep(constraints[1]))

\* C17: ModelVars returns an object whose a (b) is the clipped result of
\* apply_constraints on the independent slice a_var (b_var), with one row
\* per column of the constraint matrix, or the clipped slice itself when
\* there is no constraint matrix.
C17_ModelVarsReconstructs ==
    MVBuilt =>
        /\ fnRes.kind = "return"
        /\ fnRes.a_var = SliceOf(fnCall.constraints_loc, fnCall.init_a, "a")
        /\ fnRes.b_var = SliceOf(fnCall.constraints_scale, fnCall.init_b, "b")
        /\ fnRes.a = Reconstructed(fnCall.constraints_loc, fnRes.a_var, "a")
        /\ fnRes.b = Reconstructed(fnCall.constraints_scale, fnRes.b_var, "b")
        /\ fnCall.constraints_loc # None =>
               Len(fnRes.a.rows) = Len(fnCall.constraints_loc[1][1])
        /\ fnCall.constraints_scale # None =>
               Len(fnRes.b.rows) = Len(fnCall.constraints_scale[1][1])

\* the same when neither model has a constraint matrix
C17_Unconstrained ==
    (MVBuilt /\ fnCall.constraints_loc = None /\ fnCall.constraints_scale = None) =>
        /\ fnRes.kind = "return"
        /\ fnRes.a = Reconstructed(None, fnRes.a_var, "a")
        /\ fnRes.b = Reconstructed(None, fnRes.b_var, "b")

-----------------------------------------------------------------------------
(* tf2 GLM: setMethod and call *)

GLMGradientNames == {"gd", "adam", "adagrad", "rmsprop"}
GLMHessianNames == {"nr", "nr_tr"}
GLMFimNames == {"irls", "irls_tr", "irls_gd", "irls_gd_tr"}

\* setMethod(optimizer): the object with _calc set, or left as it is
setMethod(self, optimizer) ==
    LET o == lower(optimizer)
    IN  IF o \in GLMGradientNames THEN [self EXCEPT !.calc = Some("_return_jacobians")]
        ELSE IF o \in GLMHessianNames THEN [self EXCEPT !.calc = Some("_calc_hessians")]
        ELSE IF o \in GLMFimNames THEN [self EXCEPT !.calc = Some("_calc_fim")]
        ELSE self

\* params_copy: whether it is the variable params itself (alias) or a
\* variable of its own, and the columns of params it holds
ParamsItself == [alias |-> TRUE, cols |-> Iota(NFeat)]

\* GLM.__init__: the attributes set before setMethod, then setMethod. The
\* class has no attribute _calc of its own. converged is
\* model_vars.converged.
GLMInit(optimizer, use_gradient_tape) ==
    setMethod([mode |-> "GLM", kind |-> "return", err |-> "", calc |-> None,
               use_gradient_tape |-> use_gradient_tape, batch_features |-> FALSE,
               params_copy |-> ParamsItself,
               converged |-> [i \in Features |-> FALSE],
               calls |-> <<>>],
              optimizer)

\* tf.boolean_mask(tensor=params, mask=tf.logical_not(converged), axis=1):
\* the columns kept
boolean_mask_not(converged) ==
    LET Active(i) == ~converged[i] IN SelectSeq(Iota(NFeat), Active)

\* _call_parameters up to the use of params_copy
call_parameters(self, keep_previous_params_copy) ==
    IF ~keep_previous_params_copy
    THEN IF self.batch_features
         THEN [self EXCEPT !.params_copy =
                               [alias |-> FALSE, cols |-> boolean_mask_not(self.converged)]]
         ELSE [self EXCEPT !.params_copy = ParamsItself]
    ELSE self

\* _calc_jacobians(inputs, concat, transpose, keep_previous_params_copy),
\* through calc_ll to _call_parameters
calc_jacobians(self, concat, transpose, keep_previous_params_copy) ==
    [self |-> call_parameters(self, keep_previous_params_copy), concat |-> concat]

\* _return_jacobians passes keep_previous_params_copy as the second
\* positional argument of _calc_jacobians, which is concat; _calc_hessians
\* and _calc_fim pass it by keyword
calc(self, keep_previous_params_copy) ==
    CASE self.calc[1] = "_return_jacobians" ->
            calc_jacobians(self, keep_previous_params_copy, TRUE, TRUE)
      [] self.calc[1] = "_calc_hessians" ->
            calc_jacobians(self, TRUE, FALSE, keep_previous_params_copy)
      [] self.calc[1] = "_calc_fim" ->
            calc_jacobians(self, FALSE, FALSE, keep_previous_params_copy)

\* call(inputs, keep_previous_params_copy): self._calc(...), an
\* AttributeError when _calc was never set; otherwise what the call used
GLMCallResult(self, keep_previous_params_copy) ==
    IF self.calc = None
    THEN [kind |-> "raise", err |-> "AttributeError", method |-> "",
          keep_previous_params_copy |-> keep_previous_params_copy,
          params_copy |-> self.params_copy, converged |-> self.converged,
          batch_features |-> self.batch_features, concat |-> TRUE]
    ELSE LET c == calc(self, keep_previous_params_copy)
         IN  [kind |-> "return", err |-> "", method |-> self.calc[1],
              keep_previous_params_copy |-> keep_previous_params_copy,
              params_copy |-> c.self.params_copy, converged |-> self.converged,
              batch_features |-> self.batch_features, concat |-> c.concat]

GLMOptimizers ==
    GLMGradientNames \cup GLMHessianNames \cup GLMFimNames
    \cup {"ADAM", "NR_TR", "IRLS_TR"}
    \cup {"bfgs", "Momentum", "NR_LS"}

GLMCalls == [mode : {"GLM"}, optimizer : GLMOptimizers, use_gradient_tape : BOOLEAN]

NewGLM ==
    /\ fnCall # NoCall /\ fnCall.mode = "GLM"
    /\ fnRes = NoCall
    /\ fnRes' = GLMInit(fnCall.optimizer, fnCall.use_gradient_tape)
    /\ UNCHANGED <<fnCall, trainerVars, constrVars, hookVars>>

\* the owner of the object sets batch_features
SetBatchFeatures ==
    /\ fnCall # NoCall /\ fnCall.mode = "GLM"
    /\ fnRes # NoCall
    /\ ~fnRes.batch_features
    /\ fnRes' = [fnRes EXCEPT !.batch_features = TRUE]
    /\ UNCHANGED <<fnCall, trainerVars, constrVars, hookVars>>

\* the convergence flag of one more feature is set
UpdateConverged ==
    /\ fnCall # NoCall /\ fnCall.mode = "GLM"
    /\ fnRes # NoCall
    /\ \E i \in Features :
          /\ ~fnRes.converged[i]
          /\ fnRes' = [fnRes EXCEPT !.converged[i] = TRUE]
    /\ UNCHANGED <<fnCall, trainerVars, constrVars, hookVars>>

CallGLM ==
    /\ fnCall # NoCall /\ fnCall.mode = "GLM"
    /\ fnRes # NoCall
    /\ fnRes.kind = "return"
    /\ Len(fnRes.calls) < MaxGLMCalls
    /\ \E keep \in BOOLEAN :
          LET res == GLMCallResult(fnRes, keep)
          IN  fnRes' = [fnRes EXCEPT !.calls = Append(@, res),
                                     !.params_copy = res.params_copy]
    /\ UNCHANGED <<fnCall, trainerVars, constrVars, hookVars>>

InitGLM ==
    /\ TrainerIdle
    /\ ConstrIdle
    /\ HooksIdle
    /\ fnCall \in GLMCalls
    /\ fnRes = NoCall

NextGLM ==
    \/ NewGLM
    \/ SetBatchFeatures
    \/ UpdateConverged
    \/ CallGLM

SpecGLM == InitGLM /\ [][NextGLM]_vars

-----------------------------------------------------------------------------
(* Claims about the tf2 GLM *)

GLMBuilt == fnCall # NoCall /\ fnCall.mode = "GLM" /\ fnRes # NoCall
GLMKnown == lower(fnCall.optimizer) \in GLMGradientNames \cup GLMHessianNames \cup GLMFimNames

\* C18: constructing a GLM with an optimizer name outside gd, adam,
\* adagrad, rmsprop, nr, nr_tr, irls, irls_tr, irls_gd, irls_gd_tr fails;
\* no object without a compute method is returned.
C18_UnknownOptimizerRejected ==
    (GLMBuilt /\ ~GLMKnown) => (fnRes.kind = "raise" /\ fnRes.calc = None)

\* an unknown name is accepted and the first call fails
C18_FailsAtCall ==
    /\ GLMBuilt /\ ~GLMKnown
    /\ fnRes.kind = "return"
    /\ Len(fnRes.calls) >= 1
    /\ fnRes.calls[1].kind = "raise" /\ fnRes.calls[1].err = "AttributeError"

\* a known name gives an object whose calls return
C18_KnownAccepted ==
    (GLMBuilt /\ GLMKnown) =>
        /\ fnRes.kind = "return" /\ fnRes.calc # None
        /\ \A k \in DOMAIN fnRes.calls : fnRes.calls[k].kind = "return"

-----------------------------------------------------------------------------
(* Trust region steps across features *)

TrRan == last.op \in {"nr_tr", "irls_tr"}

\* the radius tensor the last executed trust region op read, and holds now
RadiusRead == IF last.op = "nr_tr" THEN last.nr_tr_radius ELSE last.irls_tr_radius
RadiusNow == IF last.op = "nr_tr" THEN nr_tr_radius ELSE irls_tr_radius

\* the op of the last execution, run on other values
OtherRun(theta, radius, inp) ==
    IF last.op = "nr_tr"
    THEN train_op_nr_tr_run(cfg, theta, radius, inp)
    ELSE train_op_irls_tr_run(cfg, theta, radius, inp)

\* what another execution may hold for one feature: its parameter column,
\* its radius and the values the graph evaluates for it
OtherInputs == [theta : {ZeroCol, ColA}, radius : RadiusInits, case : SeqGainCases]

\* an execution that agrees with the last one on feature i and has o[j] for
\* every other feature j
OtherTheta(i, o) == [j \in Features |-> IF j = i THEN last.variables[j] ELSE o[j].theta]
OtherRadius(i, o) == [j \in Features |-> IF j = i THEN RadiusRead[j] ELSE o[j].radius]
OtherInp(i, o) == [j \in Features |-> IF j = i THEN last.inp[j] ELSE o[j].case]
OtherOut(i, o) == OtherRun(OtherTheta(i, o), OtherRadius(i, o), OtherInp(i, o))

\* C19: the parameter column, the radius and the features_updated flag a
\* trust region step leaves for feature i are those of every other execution
\* of the op that has the same parameter column, radius, delta column, actual
\* and predicted gain for feature i, whatever it has for the other features.
C19_PerFeatureIndependent ==
    TrRan =>
        \A i \in Features : \A o \in [Features -> OtherInputs] :
            /\ OtherOut(i, o).variables[i] = variables[i]
            /\ OtherOut(i, o).radius[i] = RadiusNow[i]
            /\ OtherOut(i, o).features_updated[i] = features_updated[i]

\* a second step of a run, on two features, where another execution agrees
\* on feature i and ends differently in all three outputs of another feature
C19_Witness ==
    /\ TrRan
    /\ nExec = 2
    /\ \E i \in Features : \E j \in Features \ {i} : \E o \in [Features -> OtherInputs] :
          /\ OtherOut(i, o).variables[j] # variables[j]
          /\ OtherOut(i, o).radius[j] # RadiusNow[j]
          /\ OtherOut(i, o).features_updated[j] # features_updated[j]
          /\ features_updated[i] # features_updated[j]

-----------------------------------------------------------------------------
(* train_op_irls_tr against train_op_nr_tr *)

IrlsTrConfigured(c) == c.provide["irls_tr"] /\ c.irls_tr_delta

\* the arguments c with the Newton trust region op configured
WithNrTr(c) == [c EXCEPT !.provide["nr_tr"] = TRUE, !.newton_tr_delta = TRUE]

TrThetas == {[i \in Features |-> ZeroCol], [i \in Features |-> IF i % 2 = 1 THEN ColA ELSE ZeroCol]}

\* both ops give the same tensors from the same values of parameters, radius
\* and evaluated inputs
SameRun(c, theta, radius, inp) ==
    train_op_irls_tr_run(c, theta, radius, inp) =
        train_op_nr_tr_run(WithNrTr(c), theta, radius, inp)

\* C20: a trainer with irls_tr provided and irls_tr_delta given is built
\* with train_op_irls_tr, with or without newton_tr_delta, and that op
\* computes the new parameters, the new radius of every feature of
\* irls_tr_delta and features_updated as train_op_nr_tr computes them from
\* the same parameters, radius, delta, log likelihoods and predicted gain.
C20_IrlsTrLikeNrTr ==
    IrlsTrConfigured(cfg) =>
        /\ trainer.ok
        /\ "train_op_irls_tr" \in Built(trainer)
        /\ \A theta \in TrThetas : \A radius \in [Features -> RadiusInits] :
             \A inp \in [Features -> SeqGainCases] :
                /\ SameRun(cfg, theta, radius, inp)
                /\ DOMAIN train_op_irls_tr_run(cfg, theta, radius, inp).radius
                      = shape1(cfg.irls_tr_delta)

\* with newton_tr_delta given the trainer is built and the ops agree
C20_SameWhenNewtonGiven ==
    (IrlsTrConfigured(cfg) /\ cfg.newton_tr_delta) =>
        /\ trainer.ok
        /\ "train_op_irls_tr" \in Built(trainer)
        /\ \A theta \in TrThetas : \A radius \in [Features -> RadiusInits] :
             \A inp \in [Features -> SeqGainCases] : SameRun(cfg, theta, radius, inp)

\* an executed irls_tr step leaves what train_op_nr_tr computes from the
\* values it read, and adds one to the global step as train_op_nr_tr does
C20_ExecutedAlike ==
    last.op = "irls_tr" =>
        LET out == train_op_nr_tr_run(cfg, last.variables, last.irls_tr_radius, last.inp)
        IN  /\ variables = out.variables
            /\ irls_tr_radius = out.radius
            /\ features_updated = out.features_updated
            /\ global_step = assign_add(last.global_step, 1)

\* without newton_tr_delta the construction ends with an exception
C20_BuildFails ==
    /\ IrlsTrConfigured(cfg)
    /\ ~cfg.newton_tr_delta
    /\ ~trainer.ok
    /\ trainer.error = "AttributeError"

-----------------------------------------------------------------------------
(* The names the docstring of train_op_by_name lists *)

\* "Adam", "Adagrad", "RMSprop", "GradientDescent" or "GD", lower-cased
DocumentedLower == {"adam", "adagrad", "rmsprop", "gradientdescent", "gd"}

\* the optimizer a documented name stands for
DocumentedOp(nl) ==
    CASE nl = "adam" -> "adam"
      [] nl = "adagrad" -> "adagrad"
      [] nl = "rmsprop" -> "rmsprop"
      [] nl = "gradientdescent" -> "gd"
      [] nl = "gd" -> "gd"

DocumentedCall ==
    /\ Called
    /\ lower(CalledName) \in DocumentedLower
    /\ cfg.provide[DocumentedOp(lower(CalledName))]

\* C21: called with one of the documented names Adam, Adagrad, RMSprop,
\* GradientDescent or GD, in any letter case, train_op_by_name returns the
\* train op of that optimizer when it was provided at initialization.
C21_DocumentedNames ==
    DocumentedCall =>
        /\ Result.kind = "return"
        /\ Result.val = Some(DocumentedOp(lower(CalledName)))

\* the same without the name GradientDescent
C21_ExceptGradientDescent ==
    (DocumentedCall /\ lower(CalledName) # "gradientdescent") =>
        /\ Result.kind = "return"
        /\ Result.val = Some(DocumentedOp(lower(CalledName)))

\* GradientDescent, as documented, with the op provided, is an unknown name
C21_GradientDescentUnknown ==
    /\ DocumentedCall
    /\ CalledName = "GradientDescent"
    /\ Result.kind = "raise"
    /\ Result.err = "ValueError"
    /\ Result.msg = <<"Unknown optimizer ", "GradientDescent">>

-----------------------------------------------------------------------------
(* BasicModelGraph: the location model of one observation and feature *)

\* tf.add of two floats of the type
tf_add(x, y, dtype) ==
    IF x.k = "nan" \/ y.k = "nan" THEN NaN
    ELSE IF x.k = "fin" /\ y.k = "fin"
         THEN LET s == RAdd(x.v, y.v)
              IN  IF RLt(dtype.max, s) THEN PInf
                  ELSE IF RLt(s, <<-dtype.max[1], dtype.max[2]>>) THEN NInf
                  ELSE Fin(s)
    ELSE IF x.k = "fin" THEN y
    ELSE IF y.k = "fin" THEN x
    ELSE IF x.k = y.k THEN x
    ELSE NaN

\* tf.exp: the exponential of a finite value is kept as the term exp(v)
tf_exp(x) ==
    IF x.k = "fin" THEN [k |-> "exp", v |-> x.v]
    ELSE IF x.k = "ninf" THEN Fin(<<0, 1>>)
    ELSE x

RECURSIVE DotRow(_, _, _)
DotRow(row, col, k) ==
    IF k = 0 THEN <<0, 1>> ELSE RAdd(RMul(row[k], col[k]), DotRow(row, col, k - 1))

\* one entry of tf.matmul(design_loc, a): a row of design_loc times a
\* column of a
log_mu_obs(design_row, a_col) == Fin(DotRow(design_row, a_col, Len(design_row)))

\* the values log_mu may take: the variant clips the product and adds
\* size_factors afterwards
log_mu_clip_first(design_row, a_col, size_factors, dtype, sf) ==
    LET lin == log_mu_obs(design_row, a_col)
    IN  IF size_factors # None
        THEN {tf_add(c, size_factors[1], dtype) : c \in tf_clip_param(lin, "log_mu", dtype, sf)}
        ELSE tf_clip_param(lin, "log_mu", dtype, sf)
log_mu(design_row, a_col, size_factors, dtype, sf) ==
    LET lin == log_mu_obs(design_row, a_col)
        with_sf == IF size_factors # None THEN tf_add(lin, size_factors[1], dtype) ELSE lin
    IN  tf_clip_param(with_sf, "log_mu", dtype, sf)

DesignRows == {<<<<1, 1>>, <<0, 1>>>>, <<<<1, 1>>, <<1, 1>>>>}
ACols == {<<x, y>> : x, y \in {<<-9, 1>>, <<-3, 1>>, <<0, 1>>, <<2, 1>>, <<6, 1>>}}
SizeFactors == {None} \cup {Some(Fin(r)) : r \in {<<0, 1>>, <<1, 2>>, <<3, 1>>, <<-2, 1>>, <<6, 1>>}}

MuCalls ==
    [mode : {"mu"}, design_row : DesignRows, a : ACols, size_factors : SizeFactors,
     dtype : DTypes, sf : Margins]

\* the block under tf.name_scope("mu")
BasicModelGraphMu ==
    /\ fnCall # NoCall /\ fnCall.mode = "mu"
    /\ fnRes = NoCall
    /\ \E l \in log_mu(fnCall.design_row, fnCall.a, fnCall.size_factors, fnCall.dtype, fnCall.sf) :
          fnRes' = [mode |-> "mu", log_mu |-> l, mu |-> tf_exp(l)]
    /\ UNCHANGED <<fnCall, trainerVars, constrVars, hookVars>>

InitMu ==
    /\ TrainerIdle
    /\ ConstrIdle
    /\ HooksIdle
    /\ fnCall \in MuCalls
    /\ fnRes = NoCall

NextMu == BasicModelGraphMu

SpecMu == InitMu /\ [][NextMu]_vars

-----------------------------------------------------------------------------
(* Claims about the location model *)

MuBuilt == fnCall # NoCall /\ fnCall.mode = "mu" /\ fnRes # NoCall
MuMin == bounds_min(fnCall.dtype, fnCall.sf)["log_mu"]
MuMax == bounds_max(fnCall.dtype, fnCall.sf)["log_mu"]

\* the value of the interval [lo, hi] nearest to x
Nearest(x, lo, hi) == IF FLess(x, lo) THEN lo ELSE IF FLess(hi, x) THEN hi ELSE x

\* the linear predictor design_loc . a, and the offset added to it
Predictor == log_mu_obs(fnCall.design_row, fnCall.a)
Offset == IF fnCall.size_factors = None THEN Fin(<<0, 1>>) ELSE fnCall.size_factors[1]

-----------------------------------------------------------------------------
(* TimedRunHook: the data handed to call_fn *)

\* C23: whenever call_fn is invoked and call_request_tensors is set, the
\* requested data holds a result for every key of call_request_tensors and
\* none for global_step: the run that fires is a run whose fetches
\* before_run extended by the requested tensors.
C23_RequestedDataComplete ==
    (Timed /\ trHook.call_request_tensors # None) =>
        /\ \A i \in DOMAIN Invocations :
              /\ Invocations[i].request_data = trHook.call_request_tensors[1]
              /\ "global_step" \notin Invocations[i].request_data
        /\ \A k \in DOMAIN Runs :
              Runs[k].fired =>
                  Runs[k].requests = {"global_step"} \cup trHook.call_request_tensors[1]

\* call_fn got the requested data in one run, and another run of the same
\* session fetched the global step alone and did not fire
C23_Witness ==
    /\ Timed /\ trHook.call_request_tensors # None
    /\ \E i \in DOMAIN Invocations : Invocations[i].request_data = {"summary"}
    /\ \E k \in DOMAIN Runs : ~Runs[k].fired /\ Runs[k].requests = {"global_step"}

-----------------------------------------------------------------------------
(* apply_constraints: the order of the returned rows *)

\* the tensor that was passed, and the row of it that holds column j, an
\* independent column: row j of var_all, or the row of var_indep with the
\* rank of j among the independent columns
GivenTensor == IF cArgs.var_all # None THEN cArgs.var_all[1] ELSE cArgs.var_indep[1]
IndepRank(j) == Cardinality({k \in 1..j : ~IsDepCol(k)})
GivenRow(j) ==
    IF cArgs.var_all # None THEN GivenTensor.rows[j] ELSE GivenTensor.rows[IndepRank(j)]

\* the independent rows of the full tensor F, in column order
IndepRowsOf(F) ==
    [nf |-> F.nf,
     rows |-> [k \in 1..IndepRank(NCols) |->
                  F.rows[CHOOSE j \in 1..NCols : ~IsDepCol(j) /\ IndepRank(j) = k]]]

\* C24: a tensor apply_constraints returns has one row per column of the
\* constraint matrix, in the order of the columns: the row of every
\* independent column is that parameter's input value unchanged, and a call
\* with the full tensor gives what a call with the independent rows of that
\* tensor gives.
C24_ColumnAlignment ==
    (CCalled /\ OneGiven /\ cRes.kind = "return") =>
        /\ Len(Out) = NCols
        /\ \A j \in 1..NCols : ~IsDepCol(j) => Out[j] = GivenRow(j)
        /\ cArgs.var_all # None =>
               cRes = apply_constraints(cArgs.constraints, None,
                                        Some(IndepRowsOf(cArgs.var_all[1])))

\* a dependent column that stands before an independent one: the rows had
\* to be moved
C24_Witness ==
    /\ CCalled /\ cArgs.var_all # None /\ cArgs.var_indep = None
    /\ cRes.kind = "return"
    /\ \E j, k \in 1..NCols :
          /\ j < k /\ IsDepCol(j) /\ ~IsDepCol(k)
          /\ Out[k] = GivenRow(k)
          /\ Out[j] # Out[k]
          /\ Out[j] # GivenRow(j)

-----------------------------------------------------------------------------
(* tf2 GLM: the parameters a call works on *)

GLMCallsMade == fnRes.calls

\* the columns of params whose converged flag was false at call k, as a
\* variable of its own
ActiveCopy(k) == [alias |-> FALSE, cols |-> boolean_mask_not(GLMCallsMade[k].converged)]

\* C25: with batch_features enabled, the params_copy a model call works on
\* holds exactly the columns of params whose converged flag is false at the
\* time of the call, in their original order, in a variable that is not
\* params itself.
C25_ParamsCopyRebuilt ==
    GLMBuilt =>
        \A k \in DOMAIN GLMCallsMade :
            (GLMCallsMade[k].kind = "return" /\ GLMCallsMade[k].batch_features) =>
                GLMCallsMade[k].params_copy = ActiveCopy(k)

\* the same for the calls that compute Hessians or the Fisher information
\* and are made with keep_previous_params_copy = False
C25_RebuiltWhenAsked ==
    GLMBuilt =>
        \A k \in DOMAIN GLMCallsMade :
            (/\ GLMCallsMade[k].kind = "return" /\ GLMCallsMade[k].batch_features
             /\ ~GLMCallsMade[k].keep_previous_params_copy
             /\ GLMCallsMade[k].method \in {"_calc_hessians", "_calc_fim"}) =>
                GLMCallsMade[k].params_copy = ActiveCopy(k)

\* a call of a gradient optimizer's model with keep_previous_params_copy =
\* False, batch_features enabled and a converged feature works on params
\* itself, all columns included
C25_GradientNeverRebuilds ==
    /\ GLMBuilt
    /\ \E k \in DOMAIN GLMCallsMade :
          /\ GLMCallsMade[k].method = "_return_jacobians"
          /\ GLMCallsMade[k].batch_features
          /\ ~GLMCallsMade[k].keep_previous_params_copy
          /\ \E i \in Features : GLMCallsMade[k].converged[i]
          /\ GLMCallsMade[k].params_copy = ParamsItself
          /\ ~GLMCallsMade[k].concat

-----------------------------------------------------------------------------
(* StopAtLossHook: the initial history *)

\* the hook has taken no snapshot yet, or its snapshot or its history holds
\* an infinite value (the observed losses are finite, so an infinite value
\* is one the history was initialised with)
PlaceholderIn(h) ==
    \/ h.last_loss = None
    \/ h.last_loss[1].k = "pinf"
    \/ \E k \in DOMAIN h.loss_history : h.loss_history[k].k = "pinf"

\* thresholds up to one far above every loss
FiniteThresholds == MinLossChanges \cup {<<1000000, 1>>}

\* a run made by a hook in that state decides on a loss change that is
\* below no finite threshold, and requests no stop
NoStopOnPlaceholder ==
    (slHook # NoHook /\ PlaceholderIn(slHook)) =>
        /\ ~slSess'.stop_requested
        /\ slSess'.change # None =>
               \A m \in FiniteThresholds : ~below_threshold(slSess'.change[1], m)

\* C26: while no snapshot has been taken, or the snapshot or the history
\* still holds an initial infinite value, a run finds a loss change that is
\* below no finite min_loss_change and does not call request_stop; no stop
\* is requested in the first W runs.
C26_NoStopOnPlaceholder ==
    /\ [][NoStopOnPlaceholder]_vars
    /\ []((slHook # NoHook /\ slSess.stop_requested) => LossN > LossW)

\* a run decided on inf - inf: the snapshot is infinite and the history
\* still holds an initial value
C26_Witness ==
    /\ slHook # NoHook
    /\ ~slSess.stop_requested
    /\ LossN >= 2
    /\ slHook.last_loss = Some(PInf)
    /\ \E k \in DOMAIN slHook.loss_history : slHook.loss_history[k] = PInf
    /\ slSess.change = Some(NaN)

-----------------------------------------------------------------------------
(* apply_constraints: references to columns defined by later rows *)

\* row r has a coefficient on the dependent column of a later row
ForwardRef(r) ==
    \E k \in DOMAIN cArgs.constraints :
        k > r /\ DepOf(k) # DepOf(r) /\ cArgs.constraints[r][DepOf(k)] # 0

\* column j is available to row r: it is independent or the dependent
\* column of an earlier row
Available(r, j) == ~IsDepCol(j) \/ \E k \in 1..(r - 1) : DepOf(k) = j

\* - sum over the columns j available to row r of constraints[r][j] * x[j]
RECURSIVE AvailableCombination(_, _, _)
AvailableCombination(r, f, j) ==
    IF j = 0 THEN 0
    ELSE AvailableCombination(r, f, j - 1)
         - (IF j # DepOf(r) /\ Available(r, j) THEN cArgs.constraints[r][j] * Out[j][f] ELSE 0)

\* C27: when a constraint row has a non-zero coefficient on the dependent
\* column of a later row (and no column is marked dependent twice), the
\* call raises no error and every row's dependent parameter is computed
\* from the independent columns and the dependent columns of earlier rows
\* alone: the coefficient on the later row's column is ignored.
C27_ForwardReferenceIgnored ==
    (CCalled /\ OneGiven /\ ~HasDuplicate /\ \E r \in DOMAIN cArgs.constraints : ForwardRef(r)) =>
        /\ cRes.kind = "return"
        /\ Len(Out) = NCols
        /\ \A r \in DOMAIN cArgs.constraints : \A f \in 1..cRes.x.nf :
               Out[DepOf(r)][f] = AvailableCombination(r, f, NCols)

\* a returned tensor that does not satisfy the equation of a row with such
\* a coefficient
C27_Witness ==
    /\ CCalled /\ OneGiven /\ ~HasDuplicate
    /\ cRes.kind = "return"
    /\ \E r \in DOMAIN cArgs.constraints :
          /\ ForwardRef(r)
          /\ \E f \in 1..cRes.x.nf :
                 /\ Out[DepOf(r)][f] # Combination(r, f, NCols)
                 /\ Out[DepOf(r)][f] = AvailableCombination(r, f, NCols)

-----------------------------------------------------------------------------
(* What an update op leaves alone *)

\* C28: the nr and irls ops change the parameters and the global step
\* only: both trust region radii and features_updated are as they were
\* before the op ran; the nr_tr op leaves irls_tr_radius as it was and the
\* irls_tr op leaves nr_tr_radius as it was.
C28_OpsWriteOwnState ==
    /\ last.op \in {"nr", "irls"} =>
          /\ nr_tr_radius = last.nr_tr_radius
          /\ irls_tr_radius = last.irls_tr_radius
          /\ features_updated = last.features_updated
          /\ global_step = last.global_step + 1
    /\ last.op = "nr_tr" => irls_tr_radius = last.irls_tr_radius
    /\ last.op = "irls_tr" => nr_tr_radius = last.nr_tr_radius

\* an nr step after a trust region step that had moved a radius and set a
\* flag: parameters changed, radius and flag kept
C28_Witness ==
    /\ last.op = "nr"
    /\ nExec = 2
    /\ variables # last.variables
    /\ \E i \in Features :
          /\ features_updated[i]
          /\ nr_tr_radius[i] # TRUST_REGION_RADIUS_INIT
    /\ nr_tr_radius = last.nr_tr_radius

\* an irls_tr step after an nr_tr step that had moved nr_tr_radius
C28_CrossRadiusKept ==
    /\ last.op = "irls_tr"
    /\ \E i \in Features : nr_tr_radius[i] # TRUST_REGION_RADIUS_INIT
    /\ irls_tr_radius # last.irls_tr_radius
    /\ nr_tr_radius = last.nr_tr_radius

-----------------------------------------------------------------------------
(* Rejected trust region steps *)

\* feature i's step was rejected although a gain was predicted
RejectedWithPrediction(i) ==
    /\ ~features_updated[i]
    /\ RLt(<<0, 1>>, last.inp[i].pred)

AtEta1(i) == RatioOf(last.inp[i]) = Fin(TRUST_REGION_ETA1)

\* C29: with eta0 = 0 and 0 < eta1 < eta2, a trust region step rejected for
\* feature i while its predicted gain is positive leaves the feature's
\* parameters as they were and does not grow its radius: the radius is
\* multiplied by t1, except at a ratio of exactly eta1, where the radius is
\* unchanged too and the same delta gives the same candidate again.
C29_RejectedNeverGrows ==
    (/\ TrRan
     /\ TRUST_REGION_ETA0 = <<0, 1>>
     /\ RLt(<<0, 1>>, TRUST_REGION_ETA1) /\ RLt(TRUST_REGION_ETA1, TRUST_REGION_ETA2)) =>
        \A i \in Features :
            RejectedWithPrediction(i) =>
                /\ variables[i] = last.variables[i]
                /\ RLe(RadiusNow[i], RadiusRead[i])
                /\ ~AtEta1(i) => RadiusNow[i] = RMul(RadiusRead[i], TRUST_REGION_T1)
                /\ AtEta1(i) =>
                       /\ RadiusNow[i] = RadiusRead[i]
                       /\ theta_new(variables[i], RadiusNow[i], last.inp[i].delta)
                              = theta_new(last.variables[i], RadiusRead[i], last.inp[i].delta)

\* one feature rejected at a ratio of exactly eta1 with its radius kept,
\* another rejected with a positive gain below eta1 and its radius shrunk
C29_Witness ==
    /\ TrRan
    /\ \E i, j \in Features :
          /\ RejectedWithPrediction(i) /\ AtEta1(i)
          /\ RadiusNow[i] = RadiusRead[i]
          /\ RejectedWithPrediction(j) /\ ~AtEta1(j)
          /\ RLt(<<0, 1>>, ActualOf(last.inp[j]))
          /\ RLt(RadiusNow[j], RadiusRead[j])

-----------------------------------------------------------------------------
(* TimedRunHook: runs that do not advance the global step *)

\* the runs that were counted
CountedRuns == {k \in DOMAIN Runs : Runs[k].counted}

\* C30: a run whose fetched global step is below the expected next step
\* records no time measure and does not invoke call_fn; a run that is
\* counted sets the expected next step to the fetched global step plus one;
\* so no two runs that fetch the same global step both count, and call_fn
\* is invoked at most once per value of the global step.
C30_OncePerGlobalStep ==
    Timed =>
        /\ \A k \in DOMAIN Runs :
              /\ Runs[k].fetched < Runs[k].expected => (~Runs[k].counted /\ ~Runs[k].fired)
              /\ Runs[k].fetched >= Runs[k].expected => Runs[k].counted
              /\ Runs[k].fired => Runs[k].counted
              /\ (Runs[k].counted /\ k < Len(Runs)) =>
                     Runs[k + 1].expected = Runs[k].fetched + 1
        /\ (trSess.pc = "loop" /\ CountedRuns # {}) =>
               trHook.next_step =
                   Some(Runs[CHOOSE k \in CountedRuns : \A j \in CountedRuns : j <= k].fetched + 1)
        /\ \A k1, k2 \in DOMAIN Runs :
              (k1 < k2 /\ Runs[k1].fetched = Runs[k2].fetched) =>
                  ~(Runs[k1].counted /\ Runs[k2].counted)
        /\ \A i1, i2 \in DOMAIN Invocations :
              i1 # i2 => Invocations[i1].global_step # Invocations[i2].global_step

\* call_fn fired in a run, and two later runs fetched the same global step
\* without being counted
C30_Witness ==
    /\ Timed
    /\ Len(Runs) = 3
    /\ Runs[1].fired
    /\ ~Runs[2].advanced /\ ~Runs[2].counted
    /\ ~Runs[3].advanced /\ ~Runs[3].counted
    /\ Len(Invocations) = 1
    /\ trHook.time_measures = <<>>

=============================================================================
